---- MODULE Spec2Model ----
(***************************************************************************)
(* Peplink router integration: the re-authenticating API session           *)
(* (custom_components/peplink/api.py) and the multi-cadence polling        *)
(* coordinator (custom_components/peplink/coordinator.py).                 *)
(*                                                                         *)
(* SpecAuth : concurrent callers of one PeplinkApiClient (asyncio tasks,   *)
(*            cooperative scheduling: a task runs until it awaits I/O or   *)
(*            a contended lock).                                           *)
(* Spec     : ticks of PeplinkCoordinator._async_update_data, one API      *)
(*            method call per step, the router's answers chosen by the     *)
(*            environment.                                                 *)
(***************************************************************************)
EXTENDS Integers, Sequences, FiniteSets, TLC

(***************************************************************************)
(* Bounds of the model.                                                    *)
(***************************************************************************)
\* Number of calls made on the session, each by its own task.
NumCallers == 2

Callers == 1..NumCallers

\* The tasks run the same code: the history of the answers a call received
\* (resp_log) is recorded for the calls of the tasks in Observed.
Observed == {1}

\* The monotonic clock reads ClockStart when the integration is set up, or
\* ClockEarly when the host has just booted, and is followed up to ClockHorizon.
ClockStart == 1000
ClockEarly == 20

\* Number of ticks of the coordinator that are followed.
MaxTicks == 2
\* Number of answers of the router, over a run of the coordinator, that are not
\* the normal one (an error, or a result that leaves out connections or a fix).
MaxFaults == 1

(***************************************************************************)
(* Program constants.                                                      *)
(***************************************************************************)
TOKEN_REFRESH_SECS == 165600
NoCredential == 0

ClockHorizon == ClockStart + TOKEN_REFRESH_SECS

\* const.py: default polling intervals (seconds) and SIM slots of a cellular WAN.
DEFAULT_USAGE_INTERVAL == 60
DEFAULT_DIAG_INTERVAL == 30
DEFAULT_VPN_INTERVAL == 60
DEFAULT_GPS_INTERVAL == 120
MAX_SIM_SLOTS == 5

\* None, or the empty dict a cache starts with.
Absent == 0
\* The empty record a best-effort decoder returns on failure:
\* SystemDiagnostics(None, None), DeviceInfo("unknown", "unknown").
EmptyResult == -1

\* The connection ids of the router; connection 1 is the cellular one.
Ids == {1, 2}
WanType(i) == IF i = 1 THEN "cellular" ELSE "ethernet"

\* Seconds between the start of one tick and the start of the next (the status
\* interval is an option of the entry).
Deltas == {29, 30, 59, 60, 120}

\* What an API method gets from the dispatcher: a decoded object with stat ok, an
\* exception of _request, a decoded object with another stat, or a body that is
\* not a JSON object (returned as raw text).
Kinds == {"ok", "AuthError", "ConnectionError", "ApiFail", "NonJson"}

AUTH_MODE_USERPASS == "userpass"
AUTH_MODE_TOKEN == "token"

\* Answers of the router to POST /api/login and POST /api/auth.token.grant.
LoginOutcomes ==
  {"ok", "http401", "http_error", "non_json", "not_object", "stat_fail",
   "no_credential", "transport_error"}

\* Answers of the router to an authenticated API request.
RequestOutcomes ==
  {"http401", "http_error", "json", "api401", "api_fail", "non_json",
   "transport_error"}

VARIABLES
  \* ---- PeplinkApiClient fields
  auth_mode,          \* _auth_mode
  has_client_creds,   \* _client_id and _client_secret are both non-empty
  auth_cookie,        \* _auth_cookie (NoCredential = None)
  is_connected,       \* _is_connected
  access_token,       \* _access_token (NoCredential = None)
  token_expires_at,   \* _token_expires_at
  locked,             \* _auth_lock._locked
  waiters,            \* _auth_lock._waiters (FIFO)
  \* ---- environment
  clock,              \* time.monotonic()
  \* ---- the asyncio tasks calling the client
  running,            \* the task inside a synchronous segment, 0 = event loop idle
  pc,                 \* position of each task
  op,                 \* "request" (_request) or "test" (test_connection)
  force,              \* force argument of the task's current _ensure_connected
  attempt,            \* number of loop iterations of _request begun
  req_cred,           \* credential carried by the task's request in flight
  result,             \* outcome of the task's last call
  resp_log,           \* answers received by the attempts of the current call
  reauth_log,         \* outcomes of the forced re-authentications of the call
  joined,             \* the forced re-auth of the task's _request found the forced
                      \* re-auth of another _request in flight and waits for it
  \* ---- PeplinkCoordinator fields
  enable_vpn,         \* _enable_vpn
  enable_gps,         \* _enable_gps
  last_usage_poll,    \* _last_usage_poll
  last_diag_poll,     \* _last_diag_poll
  last_vpn_poll,      \* _last_vpn_poll
  last_gps_poll,      \* _last_gps_poll
  wan_usage,          \* _wan_usage
  diagnostics,        \* _diagnostics
  device_info,        \* _device_info
  firmware_version,   \* _firmware_version
  connected_devices,  \* _connected_devices
  traffic_stats,      \* _traffic_stats: connection id -> rates
  vpn_profiles,       \* _vpn_profiles
  location,           \* _location
  api_connected,      \* _api_connected
  authenticated,      \* _authenticated
  data_healthy,       \* _data_healthy
  wan_connections,    \* wan_connections (set by discovery): id -> record
  vpn_profiles_at_discovery,
  data,               \* the published PeplinkData: {} before the first, else {snapshot}
  \* ---- the tick in progress (_async_update_data)
  tick_pc,            \* the API call the tick or the discovery awaits
  now,                \* local `now`
  new_wan,            \* local `new_wan`: id -> record
  \* ---- history
  ticks,              \* number of ticks started
  faults,             \* number of answers that were not the normal one
  call_log,           \* API methods called by the current tick, in order
  last_before,        \* the four timestamps as the current tick found them
  tick_result,        \* how the last tick ended
  good,               \* per dataset, the value of its last successful decode
  \* ---- the entity command in progress (select.py, button.py)
  cmd_pc,             \* the API call the command awaits, "idle" if none
  cmd_raised,         \* the last command raised HomeAssistantError
  refresh_requested,  \* the last command called async_request_refresh()
  \* ---- the decoders of api.py applied to one object of an answer
  parse_in,           \* the decoded JSON object handed to the decoder
  parse_out           \* what the decoder returned

sessVars ==
  <<auth_mode, has_client_creds, auth_cookie, is_connected, access_token,
    token_expires_at, locked, waiters>>
envVars == <<clock>>
taskVars ==
  <<running, pc, op, force, attempt, req_cred, result, resp_log, reauth_log,
    joined>>

cadenceVars ==
  <<last_usage_poll, last_diag_poll, last_vpn_poll, last_gps_poll>>
cacheVars ==
  <<wan_usage, diagnostics, device_info, firmware_version, connected_devices,
    traffic_stats, vpn_profiles, location>>
healthVars == <<api_connected, authenticated, data_healthy>>
discoveryVars == <<wan_connections, vpn_profiles_at_discovery>>
configVars == <<enable_vpn, enable_gps>>
tickVars == <<tick_pc, now, new_wan>>
histVars == <<ticks, faults, call_log, last_before, tick_result, good>>
cmdVars == <<cmd_pc, cmd_raised, refresh_requested>>
parseVars == <<parse_in, parse_out>>
coordVars ==
  <<configVars, cadenceVars, cacheVars, healthVars, discoveryVars, data,
    tickVars, histVars, cmdVars, parseVars>>

vars == <<sessVars, envVars, taskVars, coordVars>>

(***************************************************************************)
(* PeplinkApiClient: auth state.                                           *)
(***************************************************************************)

\* is_authenticated(): pure predicate over the session fields and the clock.
is_authenticated ==
  IF auth_mode = AUTH_MODE_USERPASS
    THEN is_connected /\ auth_cookie # NoCredential
    ELSE access_token # NoCredential /\ clock < token_expires_at

CredentialValidAbsentMutant == TRUE

CredentialValidMutant ==
  IF auth_mode = AUTH_MODE_USERPASS
    THEN auth_cookie # NoCredential
    ELSE access_token # NoCredential

\* The early-return test of _ensure_connected (lines 124 and 128).
CredentialValid ==
  IF auth_mode = AUTH_MODE_USERPASS
    THEN is_connected /\ auth_cookie # NoCredential
    ELSE access_token # NoCredential /\ clock < token_expires_at

\* The credential _build_url / _auth_headers attach to a request.
AttachedCredential ==
  IF auth_mode = AUTH_MODE_USERPASS THEN auth_cookie ELSE access_token

\* _clear_auth_state()
ClearAuthState ==
  /\ auth_cookie' = NoCredential
  /\ is_connected' = FALSE
  /\ access_token' = NoCredential
  /\ token_expires_at' = 0

\* asyncio.Lock.acquire() succeeds without suspending.
CanAcquireMutant == TRUE
CanAcquire == ~locked /\ waiters = <<>>

\* The tasks inside the exclusive section.
InSection == {c \in Callers : pc[c] \in {"locked", "login_wait"}}
\* The tasks whose login/token-grant network call is in flight.
LoginInFlight == {c \in Callers : pc[c] = "login_wait"}

InitSession ==
  /\ auth_mode \in {AUTH_MODE_USERPASS, AUTH_MODE_TOKEN}
  /\ has_client_creds \in BOOLEAN
  /\ auth_mode = AUTH_MODE_USERPASS => ~has_client_creds
  /\ auth_cookie = NoCredential
  /\ is_connected = FALSE
  /\ access_token = NoCredential
  /\ token_expires_at = 0
  /\ locked = FALSE
  /\ waiters = <<>>

InitEnv ==
  /\ clock \in {ClockEarly, ClockStart}

InitTasks ==
  /\ running = 0
  /\ pc = [c \in Callers |-> "idle"]
  /\ op = [c \in Callers |-> "none"]
  /\ force = [c \in Callers |-> FALSE]
  /\ attempt = [c \in Callers |-> 0]
  /\ req_cred = [c \in Callers |-> NoCredential]
  /\ result = [c \in Callers |-> "none"]
  /\ resp_log = [c \in Callers |-> <<>>]
  /\ reauth_log = [c \in Callers |-> <<>>]
  /\ joined = [c \in Callers |-> FALSE]

\* PeplinkCoordinator.__init__ (lines 81-114).
InitCoordinator ==
  /\ enable_vpn \in BOOLEAN
  /\ enable_gps \in BOOLEAN
  /\ last_usage_poll = 0
  /\ last_diag_poll = 0
  /\ last_vpn_poll = 0
  /\ last_gps_poll = 0
  /\ wan_usage = Absent
  /\ diagnostics = Absent
  /\ device_info = Absent
  /\ firmware_version = Absent
  /\ connected_devices = Absent
  /\ traffic_stats = <<>>
  /\ vpn_profiles = Absent
  /\ location = Absent
  /\ api_connected = TRUE
  /\ authenticated = TRUE
  /\ data_healthy = TRUE
  /\ wan_connections = <<>>
  /\ vpn_profiles_at_discovery = Absent
  /\ data = {}
  /\ tick_pc = "constructed"
  /\ now = 0
  /\ new_wan = <<>>
  /\ ticks = 0
  /\ faults = 0
  /\ call_log = <<>>
  /\ last_before = [usage |-> 0, diag |-> 0, vpn |-> 0, gps |-> 0]
  /\ tick_result = "none"
  /\ good = [usage |-> Absent, diagnostics |-> Absent, device_info |-> Absent,
             traffic_stats |-> <<>>, location |-> Absent]
  /\ cmd_pc = "idle"
  /\ cmd_raised = FALSE
  /\ refresh_requested = FALSE

\* No object is being decoded.
NoParse == [kind |-> "none"]

Init ==
  /\ InitSession /\ InitEnv /\ InitTasks /\ InitCoordinator
  /\ parse_in = NoParse /\ parse_out = NoParse

(***************************************************************************)
(* Tasks.  A task may take a step when the event loop is idle              *)
(* (running = 0) or when it is the task inside a synchronous segment.      *)
(***************************************************************************)
UNCHANGED_cred ==
  UNCHANGED <<auth_cookie, is_connected, access_token, token_expires_at>>

\* A call of _request(method, path, body): line 259 is reached.
StartRequest(c) ==
  /\ running = 0
  /\ pc[c] = "idle"
  /\ op' = [op EXCEPT ![c] = "request"]
  /\ force' = [force EXCEPT ![c] = FALSE]
  /\ pc' = [pc EXCEPT ![c] = "ensure"]
  /\ running' = c
  /\ UNCHANGED <<sessVars, envVars, attempt, req_cred, result, resp_log,
                 reauth_log, joined>>

\* A call of test_connection(): _clear_auth_state(), then forced _ensure_connected.
StartTest(c) ==
  /\ running = 0
  /\ pc[c] = "idle"
  /\ op' = [op EXCEPT ![c] = "test"]
  /\ ClearAuthState
  /\ force' = [force EXCEPT ![c] = TRUE]
  /\ pc' = [pc EXCEPT ![c] = "ensure"]
  /\ running' = c
  /\ UNCHANGED <<auth_mode, has_client_creds, locked, waiters, envVars, attempt,
                 req_cred, result, resp_log, reauth_log, joined>>

\* _ensure_connected: `async with self._auth_lock` (line 122).
EnterLock(c) ==
  /\ running = c
  /\ pc[c] = "ensure"
  /\ IF CanAcquire
       THEN /\ locked' = TRUE
            /\ pc' = [pc EXCEPT ![c] = "locked"]
            /\ UNCHANGED <<waiters, running, joined>>
       ELSE /\ waiters' = Append(waiters, c)
            /\ pc' = [pc EXCEPT ![c] = "lock_wait"]
            /\ running' = 0
            /\ joined' = [joined EXCEPT ![c] =
                 /\ force[c] /\ op[c] = "request"
                 /\ \E h \in LoginInFlight : force[h] /\ op[h] = "request"]
            /\ UNCHANGED locked
  /\ UNCHANGED <<auth_mode, has_client_creds, envVars, op, force, attempt,
                 req_cred, result, resp_log, reauth_log>>
  /\ UNCHANGED_cred

\* The first waiter of the released lock resumes and takes it.
LockWake(c) ==
  /\ running = 0
  /\ pc[c] = "lock_wait"
  /\ ~locked
  /\ waiters # <<>> /\ Head(waiters) = c
  /\ locked' = TRUE
  /\ waiters' = Tail(waiters)
  /\ pc' = [pc EXCEPT ![c] = "locked"]
  /\ running' = c
  /\ UNCHANGED <<auth_mode, has_client_creds, envVars, op, force, attempt,
                 req_cred, result, resp_log, reauth_log, joined>>
  /\ UNCHANGED_cred

\* The task's call ends by raising err (the lock, if held, has been released).
\* The task stays in its synchronous segment until the call has returned.
Raise(c, err) ==
  /\ result' = [result EXCEPT ![c] = err]
  /\ pc' = [pc EXCEPT ![c] = "done"]
  /\ running' = c

\* Record the outcome of a forced re-authentication made by _request.
LogReauth(c, o) ==
  reauth_log' = [reauth_log EXCEPT ![c] =
                   IF op[c] = "request" /\ force[c] THEN Append(@, o) ELSE @]

\* _ensure_connected inside the lock (lines 123-130).
GrantRefusedMutant == FALSE

\* _grant_token, lines 188-189: in token mode without client id or client secret
\* the grant raises AuthError before it sends anything.
GrantRefused == auth_mode = AUTH_MODE_TOKEN /\ ~has_client_creds

InLock(c) ==
  /\ running = c
  /\ pc[c] = "locked"
  /\ IF CredentialValid /\ ~force[c]
       THEN \* return: nothing to do
            /\ locked' = FALSE
            /\ pc' = [pc EXCEPT ![c] = "ensured"]
            /\ joined' = [joined EXCEPT ![c] = FALSE]
            /\ UNCHANGED <<running, result, reauth_log>>
       ELSE IF GrantRefused
         THEN \* _grant_token line 188: AuthError before any network call
            /\ locked' = FALSE
            /\ Raise(c, "AuthError")
            /\ LogReauth(c, "AuthError")
            /\ joined' = [joined EXCEPT ![c] = FALSE]
         ELSE \* POST /api/login or /api/auth.token.grant, await the answer
            /\ pc' = [pc EXCEPT ![c] = "login_wait"]
            /\ running' = 0
            /\ UNCHANGED <<locked, result, reauth_log, joined>>
  /\ UNCHANGED <<auth_mode, has_client_creds, waiters, clock,
                 op, force, attempt, req_cred, resp_log>>
  /\ UNCHANGED_cred

\* The value of the credential the router issues next: one that is neither stored
\* in the session nor carried by a request in flight.
FreshCredential ==
  CHOOSE n \in 1..(NumCallers + 2) :
    n \notin ({auth_cookie, access_token} \cup {req_cred[c] : c \in Callers})

LoginEffectKeepMutant(o) ==
  CASE o = "ok" ->
         /\ auth_cookie' = FreshCredential
         /\ is_connected' = TRUE
         /\ UNCHANGED <<access_token, token_expires_at>>
    [] o \in {"non_json", "not_object"} -> UNCHANGED_cred
    [] OTHER ->
         /\ is_connected' = FALSE
         /\ UNCHANGED <<auth_cookie, access_token, token_expires_at>>

\* The effect of a login answer on the credential fields (_login, lines 144-184).
LoginEffect(o) ==
  CASE o = "ok" ->
         /\ auth_cookie' = FreshCredential
         /\ is_connected' = TRUE
         /\ UNCHANGED <<access_token, token_expires_at>>
    [] o \in {"http401", "http_error", "stat_fail", "no_credential"} ->
         /\ is_connected' = FALSE
         /\ UNCHANGED <<auth_cookie, access_token, token_expires_at>>
    [] o \in {"non_json", "not_object"} -> UNCHANGED_cred
    [] o = "transport_error" ->
         /\ is_connected' = FALSE
         /\ auth_cookie' = NoCredential
         /\ UNCHANGED <<access_token, token_expires_at>>

\* Lifetimes (seconds) a token-grant answer may report for the token.
ReportedExpiries == {3600, 172800}

TokenExpiryMutant(reported) == clock + reported

\* The expiry _grant_token stores (line 228); the answer's own figure is not read.
TokenExpiry(reported) == clock + TOKEN_REFRESH_SECS

GrantEffectConnectedMutant(o) ==
  CASE o = "ok" ->
         /\ access_token' = FreshCredential
         /\ is_connected' = TRUE
         /\ \E reported \in ReportedExpiries :
              token_expires_at' = TokenExpiry(reported)
         /\ UNCHANGED auth_cookie
    [] o \in {"http401", "http_error", "stat_fail", "no_credential",
              "transport_error"} -> ClearAuthState
    [] o \in {"non_json", "not_object"} -> UNCHANGED_cred

\* The effect of a token-grant answer (_grant_token, lines 201-233).
GrantEffect(o) ==
  CASE o = "ok" ->
         /\ access_token' = FreshCredential
         /\ \E reported \in ReportedExpiries :
              token_expires_at' = TokenExpiry(reported)
         /\ UNCHANGED <<auth_cookie, is_connected>>
    [] o \in {"http401", "http_error", "stat_fail", "no_credential",
              "transport_error"} -> ClearAuthState
    [] o \in {"non_json", "not_object"} -> UNCHANGED_cred

\* The exception a failed login/token grant raises; body.get on a decoded body
\* that is no object (lines 157, 214) raises AttributeError, which the handlers
\* of lines 181 and 231 do not catch.
LoginError(o) ==
  CASE o \in {"http401", "stat_fail", "no_credential"} -> "AuthError"
    [] o = "not_object" -> "AttributeError"
    [] OTHER -> "ConnectionError"

\* The answer to the login/token-grant call arrives (inside the lock); the lock
\* is released on the way out of `async with`.
LoginResponse(c, o) ==
  /\ running = 0
  /\ pc[c] = "login_wait"
  /\ IF auth_mode = AUTH_MODE_USERPASS THEN LoginEffect(o) ELSE GrantEffect(o)
  /\ locked' = FALSE
  /\ LogReauth(c, IF o = "ok" THEN "ok" ELSE LoginError(o))
  /\ joined' = [joined EXCEPT ![c] = FALSE]
  /\ IF o = "ok"
       THEN /\ pc' = [pc EXCEPT ![c] = "ensured"]
            /\ running' = c
            /\ UNCHANGED result
       ELSE Raise(c, LoginError(o))
  /\ UNCHANGED <<auth_mode, has_client_creds, waiters, clock,
                 op, force, attempt, req_cred, resp_log>>

\* Number of attempts of the loop `for _attempt in range(2)` (line 261).
MaxAttempts == 2

\* _ensure_connected has returned: test_connection is done; _request enters the
\* next loop iteration and sends the request (lines 261-272), or leaves the loop
\* and raises (line 306).
AfterEnsure(c) ==
  /\ running = c
  /\ pc[c] = "ensured"
  /\ IF op[c] = "test"
       THEN /\ result' = [result EXCEPT ![c] = "ok"]
            /\ pc' = [pc EXCEPT ![c] = "done"]
            /\ UNCHANGED <<running, attempt, req_cred>>
       ELSE IF attempt[c] < MaxAttempts
         THEN /\ attempt' = [attempt EXCEPT ![c] = @ + 1]
              /\ req_cred' = [req_cred EXCEPT ![c] = AttachedCredential]
              /\ pc' = [pc EXCEPT ![c] = "req_wait"]
              /\ running' = 0
              /\ UNCHANGED result
         ELSE /\ Raise(c, "AuthError")
              /\ UNCHANGED <<attempt, req_cred>>
  /\ UNCHANGED <<sessVars, envVars, op, force, resp_log, reauth_log, joined>>

\* The body of an answer with a success status that json.loads decodes
\* (line 282): an object with its stat and code; 403 stands for the codes other
\* than 401.
JsonBody(o) ==
  CASE o = "json" -> [stat |-> "ok", code |-> 0]
    [] o = "api401" -> [stat |-> "fail", code |-> 401]
    [] o = "api_fail" -> [stat |-> "fail", code |-> 403]

ApiLevel401Mutant(o) ==
  o \in {"json", "api401", "api_fail"} /\ JsonBody(o).stat = "fail"

\* The test of lines 287-291: {"stat": "fail", "code": 401} on a success status.
ApiLevel401(o) ==
  /\ o \in {"json", "api401", "api_fail"}
  /\ JsonBody(o).stat = "fail"
  /\ JsonBody(o).code = 401

RefusedMutant(o) == o \in {"http401", "http_error"} \/ ApiLevel401(o)

\* The answers that make _request clear the credential and re-authenticate:
\* resp.status == 401 (line 275) and the API-level 401 (line 287).
Refused(o) == o = "http401" \/ ApiLevel401(o)

\* The answer to the request arrives (lines 272-304).
Response(c, o) ==
  /\ running = 0
  /\ pc[c] = "req_wait"
  /\ resp_log' = [resp_log EXCEPT ![c] = IF c \in Observed THEN Append(@, o) ELSE @]
  /\ IF Refused(o)
       THEN \* clear, force re-authenticate, continue
            /\ ClearAuthState
            /\ force' = [force EXCEPT ![c] = TRUE]
            /\ pc' = [pc EXCEPT ![c] = "ensure"]
            /\ running' = c
            /\ UNCHANGED result
       ELSE /\ UNCHANGED_cred
            /\ UNCHANGED force
            /\ pc' = [pc EXCEPT ![c] = "done"]
            /\ running' = c
            /\ result' = [result EXCEPT ![c] =
                 CASE o \in {"http_error", "transport_error"} -> "ConnectionError"
                   [] o \in {"json", "api_fail"} -> "data"
                   [] o = "non_json" -> "text"]
  /\ UNCHANGED <<auth_mode, has_client_creds, locked, waiters, envVars, op,
                 attempt, req_cred, reauth_log, joined>>

\* The call has returned to its caller: the task ends and its locals are gone.
Return(c) ==
  /\ running = c
  /\ pc[c] = "done"
  /\ pc' = [pc EXCEPT ![c] = "returned"]
  /\ op' = [op EXCEPT ![c] = "none"]
  /\ force' = [force EXCEPT ![c] = FALSE]
  /\ attempt' = [attempt EXCEPT ![c] = 0]
  /\ req_cred' = [req_cred EXCEPT ![c] = NoCredential]
  /\ result' = [result EXCEPT ![c] = "none"]
  /\ resp_log' = [resp_log EXCEPT ![c] = <<>>]
  /\ reauth_log' = [reauth_log EXCEPT ![c] = <<>>]
  /\ joined' = [joined EXCEPT ![c] = FALSE]
  /\ running' = 0
  /\ UNCHANGED <<sessVars, envVars>>

\* The monotonic clock advances while the event loop is idle.  The client reads
\* the clock only to compare it with the expiry of a stored token (lines 110, 128)
\* and to set that expiry (line 228), so the passing of time is followed only
\* while a token is stored and not yet expired, to the last second before the
\* expiry and to the expiry.
AdvanceClock(d) ==
  /\ running = 0
  /\ d > 0
  /\ auth_mode = AUTH_MODE_TOKEN
  /\ access_token # NoCredential /\ clock < token_expires_at
  /\ clock + d <= ClockHorizon
  /\ clock' = clock + d
  /\ UNCHANGED <<sessVars, taskVars>>

NextAuth ==
  \/ \E c \in Callers : StartRequest(c) /\ UNCHANGED coordVars
  \/ \E c \in Callers : StartTest(c) /\ UNCHANGED coordVars
  \/ \E c \in Callers : EnterLock(c) /\ UNCHANGED coordVars
  \/ \E c \in Callers : LockWake(c) /\ UNCHANGED coordVars
  \/ \E c \in Callers : InLock(c) /\ UNCHANGED coordVars
  \/ \E c \in Callers, o \in LoginOutcomes :
        LoginResponse(c, o) /\ UNCHANGED coordVars
  \/ \E c \in Callers : AfterEnsure(c) /\ UNCHANGED coordVars
  \/ \E c \in Callers, o \in RequestOutcomes :
        Response(c, o) /\ UNCHANGED coordVars
  \/ \E c \in Callers : Return(c) /\ UNCHANGED coordVars
  \/ \E d \in {token_expires_at - 1 - clock, token_expires_at - clock} :
        AdvanceClock(d) /\ UNCHANGED coordVars

\* The session on its own: the coordinator is constructed and does not tick, so
\* its options play no part.
InitAuth == Init /\ ~enable_vpn /\ ~enable_gps /\ clock = ClockStart

SpecAuth == InitAuth /\ [][NextAuth]_vars

(***************************************************************************)
(* Claims about the session (checked under SpecAuth).                      *)
(***************************************************************************)

\* A call of _request has just ended for task c.
RequestEnded(c) == pc[c] = "done" /\ op[c] = "request"

AllAre(log, v) == \A i \in 1..Len(log) : log[i] = v

\* C1: a call of _request whose every attempt is answered with HTTP 401 while
\* every forced re-authentication succeeds ends with AuthError after exactly 2
\* request attempts and exactly 1 re-authentication attempt.
C1_RetryOnce ==
  \A c \in Observed :
    (/\ RequestEnded(c)
     /\ resp_log[c] # <<>>
     /\ AllAre(resp_log[c], "http401")
     /\ AllAre(reauth_log[c], "ok"))
    => /\ result[c] = "AuthError"
       /\ Len(resp_log[c]) = 2
       /\ Len(reauth_log[c]) = 1

\* C2: a caller whose forced re-authentication found another caller's forced
\* flow in flight, and waited for it to finish with a valid credential, does not
\* start a login/token-grant call of its own.
C2_OneLoginForTwo ==
  \A c \in Callers : ~(joined[c] /\ pc[c] = "login_wait" /\ CredentialValid)

\* C3: at most one login/token-grant flow is in flight at a time.
C3_OneFlowInFlight == Cardinality(LoginInFlight) <= 1

\* C3 witness: a login is in flight while another caller, which wants to force a
\* re-authentication, waits for the lock.
C3_Witness ==
  \E c, d \in Callers :
    /\ c # d
    /\ pc[c] = "login_wait"
    /\ pc[d] = "lock_wait" /\ force[d]

(***************************************************************************)
(* PeplinkCoordinator: one tick of _async_update_data, one action per      *)
(* awaited API call.  Each action takes what the API method got from the   *)
(* dispatcher (k), whether the session holds a valid credential when the   *)
(* call returns (v), and continues to the next await or to the return.     *)
(***************************************************************************)

\* What one call of _request leaves in the session: a call that got an HTTP
\* answer other than 401 was made with a valid credential, obtained by a login
\* if there was none; a call that raised leaves either a valid credential (the
\* last re-login succeeded, the request failed) or none.
RequestEffect(v) ==
  /\ IF v
       THEN IF CredentialValid
              THEN UNCHANGED_cred
              ELSE IF auth_mode = AUTH_MODE_USERPASS
                     THEN LoginEffect("ok") ELSE GrantEffect("ok")
       ELSE ClearAuthState
  /\ UNCHANGED <<auth_mode, has_client_creds, locked, waiters>>

\* The pairs (k, v) a call can end with: an answer that reached the API method
\* as a body was requested with a valid credential.
Legal(k, v) ==
  /\ k \in {"ok", "ApiFail", "NonJson", "NoFix"} => v
  /\ v => \/ CredentialValid
          \/ auth_mode = AUTH_MODE_USERPASS
          \/ has_client_creds

\* An answer other than the normal one uses up one of the MaxFaults.
Fault(normal) ==
  /\ normal \/ faults < MaxFaults
  /\ faults' = IF normal THEN faults ELSE faults + 1

\* The value decoded from the answer of the current tick.
Decoded == ticks

\* An entry of call_log: the API method, whether its fetch failed, for the
\* primary fetch what it got from the dispatcher, whether the session held a
\* valid credential when the call returned, the connection ids of the answer
\* if it lists connections, and, where the dispatcher is followed step by
\* step, the answers its attempts received and the outcomes of its forced
\* re-authentications.
Call(m, k, v, ids) ==
  [call |-> m, failed |-> k \notin {"ok", "NoFix"},
   kind |-> IF m = "status" THEN k ELSE "",
   auth |-> v, ids |-> IF k = "ok" THEN ids ELSE {},
   resp |-> <<>>, reauth |-> <<>>]

\* The gates of the slow polls (lines 209, 214, 227, 232), with the default
\* intervals.
VpnDueMutant == now - last_vpn_poll >= DEFAULT_VPN_INTERVAL
UsageDue == now - last_usage_poll >= DEFAULT_USAGE_INTERVAL
DiagDue == now - last_diag_poll >= DEFAULT_DIAG_INTERVAL
VpnDue == enable_vpn /\ now - last_vpn_poll >= DEFAULT_VPN_INTERVAL
GpsDue == enable_gps /\ now - last_gps_poll >= DEFAULT_GPS_INTERVAL

\* Where the tick goes after the stage `after`: the first later stage whose gate
\* is open, else the return statement.
Stages == <<"status", "usage", "diag", "vpn", "gps">>
StageNo(st) == CHOOSE n \in 1..Len(Stages) : Stages[n] = st
StageDue(st) ==
  CASE st = "usage" -> UsageDue
    [] st = "diag" -> DiagDue
    [] st = "vpn" -> VpnDue
    [] st = "gps" -> GpsDue
    [] OTHER -> FALSE
FirstCall(st) == IF st = "diag" THEN "diag_system" ELSE st
NextPc(after) ==
  LET later == {n \in (StageNo(after) + 1)..Len(Stages) : StageDue(Stages[n])}
  IN  IF later = {} THEN "publish"
      ELSE FirstCall(Stages[CHOOSE n \in later : \A m \in later : n <= m])

\* _parse_wan_connection: a record per returned id; the parser never fills the
\* SIM slot count or the rates.
ParseWan(ids) ==
  [i \in ids |-> [wan_type |-> WanType(i), sim_slot_count |-> 0, rate |-> Absent]]

EnrichSkipMutant(w) == w

\* Lines 193-201: take the SIM slot count of the discovered connection if larger.
Enrich(w) ==
  [i \in DOMAIN w |->
     IF i \in DOMAIN wan_connections
        /\ wan_connections[i].sim_slot_count > w[i].sim_slot_count
       THEN [w[i] EXCEPT !.sim_slot_count = wan_connections[i].sim_slot_count]
       ELSE w[i]]

OverlayTrafficStatsMutant(w, stats) ==
  [i \in DOMAIN w \cup DOMAIN stats |->
     IF i \in DOMAIN stats
       THEN [wan_type |-> WanType(i), sim_slot_count |-> 0, rate |-> stats[i]]
       ELSE w[i]]

OverlayTrafficStatsSkipMutant(w, stats) == w

\* _overlay_traffic_stats(new_wan): rates of the ids present in both.
OverlayTrafficStats(w, stats) ==
  [i \in DOMAIN w |->
     IF i \in DOMAIN stats THEN [w[i] EXCEPT !.rate = stats[i]] ELSE w[i]]

TickRaiseMutant(err) ==
  /\ tick_result' = err
  /\ tick_pc' = IF tick_pc = "status" THEN "usage" ELSE "idle"

\* The tick raises: UpdateFailed from the handlers of the primary fetch, or an
\* exception no handler catches.  Nothing is published.
TickRaise(err) ==
  /\ tick_result' = err
  /\ tick_pc' = "idle"

\* A tick starts (the update interval has elapsed): now = time.monotonic(), then
\* await get_wan_status().
TickStart(d) ==
  /\ tick_pc = "idle"
  /\ ticks < MaxTicks
  /\ ticks' = ticks + 1
  /\ clock' = IF ticks = 0 THEN clock ELSE clock + d
  /\ now' = clock'
  /\ tick_pc' = "status"
  /\ call_log' = <<>>
  /\ last_before' = [usage |-> last_usage_poll, diag |-> last_diag_poll,
                     vpn |-> last_vpn_poll, gps |-> last_gps_poll]
  /\ tick_result' = "running"
  /\ new_wan' = <<>>
  /\ UNCHANGED <<sessVars, taskVars, configVars, cadenceVars, cacheVars,
                 healthVars, discoveryVars, data, faults, good>>

FailureFlagsMutant(k) == <<TRUE, FALSE, FALSE>>

\* The health flags the handlers of the primary fetch record (lines 182-191):
\* <<_api_connected, _authenticated, _data_healthy>>.
FailureFlags(k) ==
  IF k = "AuthError" THEN <<TRUE, FALSE, FALSE>> ELSE <<FALSE, FALSE, FALSE>>

PrimaryFlagsMutant(auth, ids) == <<TRUE, auth, TRUE>>

\* The health flags after a successful primary fetch (lines 179-181).
PrimaryFlags(auth, ids) == <<TRUE, auth, ids # {}>>

\* Lines 177-206: what the tick does with the outcome of get_wan_status();
\* auth is what is_authenticated() answers when the call has returned.
StatusHandled(k, auth, ids) ==
  CASE k = "ok" ->
         /\ api_connected' = PrimaryFlags(auth, ids)[1]
         /\ authenticated' = PrimaryFlags(auth, ids)[2]
         /\ data_healthy' = PrimaryFlags(auth, ids)[3]
         /\ new_wan' = OverlayTrafficStats(Enrich(ParseWan(ids)), traffic_stats)
         /\ tick_pc' = NextPc("status")
         /\ UNCHANGED tick_result
    [] k \in {"AuthError", "ConnectionError", "ApiFail"} ->
         /\ api_connected' = FailureFlags(k)[1]
         /\ authenticated' = FailureFlags(k)[2]
         /\ data_healthy' = FailureFlags(k)[3]
         /\ TickRaise("UpdateFailed")
         /\ UNCHANGED new_wan
    [] k = "NonJson" ->
         \* data.get on a str: AttributeError, caught by neither handler
         /\ TickRaise("AttributeError")
         /\ UNCHANGED <<healthVars, new_wan>>

\* get_wan_status() returns or raises (lines 173-206).
StatusDone(k, v, ids) ==
  /\ tick_pc = "status"
  /\ Fault(k = "ok" /\ ids = Ids)
  /\ k # "ok" => ids = Ids
  /\ RequestEffect(v)
  /\ UNCHANGED clock
  /\ StatusHandled(k, is_authenticated', ids)
  /\ call_log' = Append(call_log, Call("status", k, v, ids))
  /\ UNCHANGED <<taskVars, configVars, cadenceVars, cacheVars,
                 discoveryVars, data, now, ticks, last_before, good>>

PollUsageResultMutant(k, old) == IF k = "ok" THEN Decoded ELSE Absent

\* The try/except of _poll_usage: the cache is assigned only when
\* get_wan_usage() returned.
PollUsageResult(k, old) == IF k = "ok" THEN Decoded ELSE old

\* _poll_usage() (lines 253-259) and line 211.
UsageDone(k, v) ==
  /\ tick_pc = "usage"
  /\ Fault(k = "ok")
  /\ RequestEffect(v)
  /\ call_log' = Append(call_log, Call("usage", k, v, {}))
  /\ CASE k \in {"ok", "AuthError", "ConnectionError", "ApiFail"} ->
            /\ wan_usage' = PollUsageResult(k, wan_usage)
            /\ good' = IF k = "ok" THEN [good EXCEPT !.usage = Decoded] ELSE good
            /\ last_usage_poll' = now
            /\ tick_pc' = NextPc("usage")
            /\ UNCHANGED tick_result
       [] k = "NonJson" ->
            \* get_wan_usage: data.get on a str raises AttributeError, which
            \* _poll_usage does not catch
            /\ TickRaise("AttributeError")
            /\ UNCHANGED <<wan_usage, good, last_usage_poll>>
  /\ UNCHANGED <<clock, taskVars, configVars, last_diag_poll, last_vpn_poll,
                 last_gps_poll, diagnostics, device_info, firmware_version,
                 connected_devices, traffic_stats, vpn_profiles, location,
                 healthVars, discoveryVars, data, now, new_wan, ticks,
                 last_before>>

\* The rest of the tick leaves these alone.
UNCHANGED_tick ==
  UNCHANGED <<clock, taskVars, configVars, healthVars, discoveryVars, data,
              now, ticks, last_before>>

\* A best-effort decoder (get_system_diagnostics, get_device_info): the decoded
\* value, the empty record on a failed fetch, and AuthError propagates to the
\* handler of _poll_diagnostics, which leaves the cache alone.
BestEffort(k, old) ==
  CASE k = "ok" -> Decoded
    [] k = "AuthError" -> old
    [] OTHER -> EmptyResult

DiagNextMutant(st, k) ==
  IF k # "ok" THEN "diag_traffic"
  ELSE CASE st = "diag_system" -> "diag_device"
         [] st = "diag_device" ->
              IF firmware_version = Absent THEN "diag_firmware"
                                           ELSE "diag_clients"
         [] st = "diag_firmware" -> "diag_clients"
         [] st = "diag_clients" -> "diag_traffic"

DiagNextRefetchMutant(st, k) ==
  CASE st = "diag_system" -> "diag_device"
    [] st = "diag_device" -> "diag_firmware"
    [] st = "diag_firmware" -> "diag_clients"
    [] st = "diag_clients" -> "diag_traffic"

\* The sub-fetch of _poll_diagnostics that follows the sub-fetch st, whatever
\* st answered (each has its own try/except); the firmware fetch is made only
\* while no version is cached (line 276).
DiagNext(st, k) ==
  CASE st = "diag_system" -> "diag_device"
    [] st = "diag_device" ->
         IF firmware_version = Absent THEN "diag_firmware" ELSE "diag_clients"
    [] st = "diag_firmware" -> "diag_clients"
    [] st = "diag_clients" -> "diag_traffic"

\* _poll_diagnostics, first fetch: get_system_diagnostics() (lines 263-267).
DiagSystemDone(k, v) ==
  /\ tick_pc = "diag_system"
  /\ Fault(k = "ok")
  /\ RequestEffect(v)
  /\ call_log' = Append(call_log, Call("diag_system", k, v, {}))
  /\ diagnostics' = BestEffort(k, diagnostics)
  /\ good' = IF k = "ok" THEN [good EXCEPT !.diagnostics = Decoded] ELSE good
  /\ tick_pc' = DiagNext("diag_system", k)
  /\ UNCHANGED <<cadenceVars, wan_usage, device_info, firmware_version,
                 connected_devices, traffic_stats, vpn_profiles, location,
                 new_wan, tick_result>>
  /\ UNCHANGED_tick

\* get_device_info() (lines 269-273); the firmware fetch follows only while no
\* version is cached (line 276).
DiagDeviceDone(k, v) ==
  /\ tick_pc = "diag_device"
  /\ Fault(k = "ok")
  /\ RequestEffect(v)
  /\ call_log' = Append(call_log, Call("diag_device", k, v, {}))
  /\ device_info' = BestEffort(k, device_info)
  /\ good' = IF k = "ok" THEN [good EXCEPT !.device_info = Decoded] ELSE good
  /\ tick_pc' = DiagNext("diag_device", k)
  /\ UNCHANGED <<cadenceVars, wan_usage, diagnostics, firmware_version,
                 connected_devices, traffic_stats, vpn_profiles, location,
                 new_wan, tick_result>>
  /\ UNCHANGED_tick

\* get_firmware_version() (lines 276-280): any exception is caught.
DiagFirmwareDone(k, v) ==
  /\ tick_pc = "diag_firmware"
  /\ Fault(k = "ok")
  /\ RequestEffect(v)
  /\ call_log' = Append(call_log, Call("diag_firmware", k, v, {}))
  /\ firmware_version' = IF k = "ok" THEN Decoded ELSE firmware_version
  /\ tick_pc' = DiagNext("diag_firmware", k)
  /\ UNCHANGED <<cadenceVars, wan_usage, diagnostics, device_info,
                 connected_devices, traffic_stats, vpn_profiles, location,
                 new_wan, tick_result, good>>
  /\ UNCHANGED_tick

\* get_connected_devices_count() (lines 282-286): any exception is caught.
DiagClientsDone(k, v) ==
  /\ tick_pc = "diag_clients"
  /\ Fault(k = "ok")
  /\ RequestEffect(v)
  /\ call_log' = Append(call_log, Call("diag_clients", k, v, {}))
  /\ connected_devices' = IF k = "ok" THEN Decoded ELSE connected_devices
  /\ tick_pc' = DiagNext("diag_clients", k)
  /\ UNCHANGED <<cadenceVars, wan_usage, diagnostics, device_info,
                 firmware_version, traffic_stats, vpn_profiles, location,
                 new_wan, tick_result, good>>
  /\ UNCHANGED_tick

\* get_traffic_stats() (lines 288-292), then lines 216-224: the timestamp and
\* the second overlay.
DiagTrafficDone(k, v, ids) ==
  /\ tick_pc = "diag_traffic"
  /\ Fault(k = "ok" /\ ids = Ids)
  /\ k # "ok" => ids = Ids
  /\ RequestEffect(v)
  /\ call_log' = Append(call_log, Call("diag_traffic", k, v, ids))
  /\ traffic_stats' =
       CASE k = "ok" -> [i \in ids |-> Decoded]
         [] k = "AuthError" -> traffic_stats
         [] OTHER -> <<>>
  /\ good' = IF k = "ok" THEN [good EXCEPT !.traffic_stats = traffic_stats']
                         ELSE good
  /\ last_diag_poll' = now
  /\ new_wan' = OverlayTrafficStats(new_wan, traffic_stats')
  /\ tick_pc' = NextPc("diag")
  /\ UNCHANGED <<last_usage_poll, last_vpn_poll, last_gps_poll, wan_usage,
                 diagnostics, device_info, firmware_version, connected_devices,
                 vpn_profiles, location, tick_result>>
  /\ UNCHANGED_tick

\* _poll_vpn() (lines 296-311) and line 228.
VpnDone(k, v) ==
  /\ tick_pc = "vpn"
  /\ Fault(k = "ok")
  /\ RequestEffect(v)
  /\ call_log' = Append(call_log, Call("vpn", k, v, {}))
  /\ CASE k = "ok" ->
            /\ vpn_profiles' = Decoded
            /\ last_vpn_poll' = now
            /\ tick_pc' = NextPc("vpn")
            /\ UNCHANGED tick_result
       [] k \in {"AuthError", "ConnectionError", "ApiFail"} ->
            /\ last_vpn_poll' = now
            /\ tick_pc' = NextPc("vpn")
            /\ UNCHANGED <<vpn_profiles, tick_result>>
       [] k = "NonJson" ->
            \* get_pep_vpn_profiles: data.get on a str raises AttributeError,
            \* which _poll_vpn does not catch
            /\ TickRaise("AttributeError")
            /\ UNCHANGED <<vpn_profiles, last_vpn_poll>>
  /\ UNCHANGED <<last_usage_poll, last_diag_poll, last_gps_poll, wan_usage,
                 diagnostics, device_info, firmware_version, connected_devices,
                 traffic_stats, location, new_wan, good>>
  /\ UNCHANGED_tick

\* What get_location() can end with: the kinds of answer, and an ok answer that
\* carries no position.
GpsKinds == Kinds \cup {"NoFix"}

\* _poll_gps() (lines 313-322) and line 233: get_location returns None on a
\* failed fetch and on an answer without a position; AuthError is caught by
\* _poll_gps.
GpsDone(k, v) ==
  /\ tick_pc = "gps"
  /\ Fault(k = "ok")
  /\ RequestEffect(v)
  /\ call_log' = Append(call_log, Call("gps", k, v, {}))
  /\ location' =
       CASE k = "ok" -> Decoded
         [] k = "AuthError" -> location
         [] OTHER -> Absent
  /\ good' = IF k \in {"ok", "NoFix"}
               THEN [good EXCEPT !.location = location'] ELSE good
  /\ last_gps_poll' = now
  /\ tick_pc' = NextPc("gps")
  /\ UNCHANGED <<last_usage_poll, last_diag_poll, last_vpn_poll, wan_usage,
                 diagnostics, device_info, firmware_version, connected_devices,
                 traffic_stats, vpn_profiles, new_wan, tick_result>>
  /\ UNCHANGED_tick

SnapshotKeepMutant ==
  [wan_connections |-> new_wan,
   wan_usage |-> IF data = {} THEN wan_usage
                 ELSE (CHOOSE old \in data : TRUE).wan_usage,
   diagnostics |-> diagnostics, device_info |-> device_info,
   firmware_version |-> firmware_version,
   connected_devices |-> connected_devices, traffic_stats |-> traffic_stats,
   vpn_profiles |-> vpn_profiles,
   location |-> location, api_connected |-> api_connected,
   authenticated |-> authenticated, data_healthy |-> data_healthy]

\* The PeplinkData the tick returns (lines 236-249).
Snapshot ==
  [wan_connections |-> new_wan, wan_usage |-> wan_usage,
   diagnostics |-> diagnostics, device_info |-> device_info,
   firmware_version |-> firmware_version,
   connected_devices |-> connected_devices, traffic_stats |-> traffic_stats,
   vpn_profiles |-> vpn_profiles,
   location |-> location, api_connected |-> api_connected,
   authenticated |-> authenticated, data_healthy |-> data_healthy]

\* The tick returns and the base class publishes the result as coordinator.data.
Publish ==
  /\ tick_pc = "publish"
  /\ data' = {Snapshot}
  /\ tick_result' = "published"
  /\ tick_pc' = "idle"
  /\ UNCHANGED <<sessVars, clock, taskVars, configVars, cadenceVars, cacheVars,
                 healthVars, discoveryVars, now, new_wan, ticks, faults,
                 call_log, last_before, good>>

(***************************************************************************)
(* Set-up: async_setup_entry runs the discovery, then the first refresh.   *)
(***************************************************************************)

\* async_setup_entry (__init__.py lines 30-31): await the discovery.
AsyncSetupEntry ==
  /\ tick_pc = "constructed"
  /\ tick_pc' = "discover_status"
  /\ UNCHANGED <<sessVars, clock, taskVars, configVars, cadenceVars, cacheVars,
                 healthVars, discoveryVars, data, now, new_wan, histVars>>

\* Set-up is abandoned: ConfigEntryNotReady, or an exception nothing catches.
SetupRaise(err) ==
  /\ tick_result' = err
  /\ tick_pc' = "not_ready"

\* async_discover_hardware, first part (lines 126-138): get_wan_status() of all
\* ids; cellular connections get MAX_SIM_SLOTS.
DiscoverStatusDone(k, v, ids) ==
  /\ tick_pc = "discover_status"
  /\ Fault(k = "ok" /\ ids = Ids)
  /\ k # "ok" => ids = Ids
  /\ RequestEffect(v)
  /\ CASE k = "ok" ->
            /\ wan_connections' =
                 [i \in ids |->
                    IF WanType(i) = "cellular"
                      THEN [ParseWan(ids)[i] EXCEPT
                              !.sim_slot_count = MAX_SIM_SLOTS]
                      ELSE ParseWan(ids)[i]]
            /\ tick_pc' = IF enable_vpn THEN "discover_vpn" ELSE "idle"
            /\ UNCHANGED tick_result
       [] k \in {"AuthError", "ConnectionError", "ApiFail"} ->
            /\ SetupRaise("ConfigEntryNotReady")
            /\ UNCHANGED wan_connections
       [] k = "NonJson" ->
            /\ SetupRaise("AttributeError")
            /\ UNCHANGED wan_connections
  /\ UNCHANGED <<clock, taskVars, configVars, cadenceVars, cacheVars,
                 healthVars, vpn_profiles_at_discovery, data, now, new_wan,
                 ticks, call_log, last_before, good>>

\* async_discover_hardware, second part (lines 149-165): the VPN profiles.
DiscoverVpnDone(k, v) ==
  /\ tick_pc = "discover_vpn"
  /\ Fault(k = "ok")
  /\ RequestEffect(v)
  /\ CASE k = "ok" ->
            /\ vpn_profiles_at_discovery' = ticks + 1
            /\ tick_pc' = "idle"
            /\ UNCHANGED tick_result
       [] k \in {"AuthError", "ConnectionError", "ApiFail"} ->
            /\ tick_pc' = "idle"
            /\ UNCHANGED <<vpn_profiles_at_discovery, tick_result>>
       [] k = "NonJson" ->
            /\ SetupRaise("AttributeError")
            /\ UNCHANGED vpn_profiles_at_discovery
  /\ UNCHANGED <<clock, taskVars, configVars, cadenceVars, cacheVars,
                 healthVars, wan_connections, data, now, new_wan, ticks,
                 call_log, last_before, good>>

(***************************************************************************)
(* Commands and rediscovery: an entity takes a call while it is available, *)
(* that is while the last tick published (entity.py lines 61-66); the      *)
(* calls are followed between two ticks.                                   *)
(***************************************************************************)

\* WanPrioritySelect.async_select_option (select.py lines 68-78) and
\* ResetModemButton.async_press (button.py lines 60-69): set_wan_priority() or
\* reset_cellular_modem() returns or raises; the coordinator keeps no result of
\* the command, the refresh select.py asks for is the next tick.
CommandDone(k, v) ==
  /\ tick_pc = "idle"
  /\ tick_result = "published"
  /\ Fault(k = "ok")
  /\ RequestEffect(v)
  /\ UNCHANGED <<clock, taskVars, configVars, cadenceVars, cacheVars,
                 healthVars, discoveryVars, data, tickVars, ticks, call_log,
                 last_before, tick_result, good>>

\* RediscoverButton.async_press (button.py lines 87-94) starts
\* async_discover_hardware(); when that returns, config_entries.async_reload
\* unloads the entry and sets it up again with a coordinator of its own, and
\* this one ticks no more.
RediscoverPress ==
  /\ tick_pc = "idle"
  /\ tick_result = "published"
  /\ tick_pc' = "rediscover_status"
  /\ UNCHANGED <<sessVars, clock, taskVars, configVars, cadenceVars, cacheVars,
                 healthVars, discoveryVars, data, now, new_wan, histVars>>

\* async_discover_hardware, first part (lines 126-138), run from the button: a
\* failure leaves through async_press and the entry is not reloaded.
RediscoverStatusDone(k, v, ids) ==
  /\ tick_pc = "rediscover_status"
  /\ Fault(k = "ok" /\ ids = Ids)
  /\ k # "ok" => ids = Ids
  /\ RequestEffect(v)
  /\ IF k = "ok"
       THEN /\ wan_connections' =
                 [i \in ids |->
                    IF WanType(i) = "cellular"
                      THEN [ParseWan(ids)[i] EXCEPT
                              !.sim_slot_count = MAX_SIM_SLOTS]
                      ELSE ParseWan(ids)[i]]
            /\ tick_pc' = IF enable_vpn THEN "rediscover_vpn" ELSE "reloaded"
       ELSE /\ tick_pc' = "idle"
            /\ UNCHANGED wan_connections
  /\ UNCHANGED <<clock, taskVars, configVars, cadenceVars, cacheVars,
                 healthVars, vpn_profiles_at_discovery, data, now, new_wan,
                 ticks, call_log, last_before, tick_result, good>>

\* async_discover_hardware, second part (lines 149-165), run from the button.
RediscoverVpnDone(k, v) ==
  /\ tick_pc = "rediscover_vpn"
  /\ Fault(k = "ok")
  /\ RequestEffect(v)
  /\ CASE k = "ok" ->
            /\ vpn_profiles_at_discovery' = ticks + 1
            /\ tick_pc' = "reloaded"
       [] k \in {"AuthError", "ConnectionError", "ApiFail"} ->
            /\ tick_pc' = "reloaded"
            /\ UNCHANGED vpn_profiles_at_discovery
       [] k = "NonJson" ->
            /\ tick_pc' = "idle"
            /\ UNCHANGED vpn_profiles_at_discovery
  /\ UNCHANGED <<clock, taskVars, configVars, cadenceVars, cacheVars,
                 healthVars, wan_connections, data, now, new_wan, ticks,
                 call_log, last_before, tick_result, good>>

\* The answers the environment may give to the awaited call: any legal one
\* while faults are left, else the normal one.
Next ==
  \/ AsyncSetupEntry /\ UNCHANGED <<cmdVars, parseVars>>
  \/ /\ tick_pc = "discover_status"
     /\ \E k \in Kinds, v \in BOOLEAN, ids \in SUBSET Ids :
          Legal(k, v) /\ DiscoverStatusDone(k, v, ids)
     /\ UNCHANGED <<cmdVars, parseVars>>
  \/ /\ tick_pc = "discover_vpn"
     /\ \E k \in Kinds, v \in BOOLEAN : Legal(k, v) /\ DiscoverVpnDone(k, v)
     /\ UNCHANGED <<cmdVars, parseVars>>
  \/ \E d \in Deltas : TickStart(d) /\ UNCHANGED <<cmdVars, parseVars>>
  \/ /\ tick_pc = "status"
     /\ \E k \in Kinds, v \in BOOLEAN, ids \in SUBSET Ids :
          Legal(k, v) /\ StatusDone(k, v, ids)
     /\ UNCHANGED <<cmdVars, parseVars>>
  \/ /\ tick_pc = "usage"
     /\ \E k \in Kinds, v \in BOOLEAN : Legal(k, v) /\ UsageDone(k, v)
     /\ UNCHANGED <<cmdVars, parseVars>>
  \/ /\ tick_pc = "diag_system"
     /\ \E k \in Kinds, v \in BOOLEAN : Legal(k, v) /\ DiagSystemDone(k, v)
     /\ UNCHANGED <<cmdVars, parseVars>>
  \/ /\ tick_pc = "diag_device"
     /\ \E k \in Kinds, v \in BOOLEAN : Legal(k, v) /\ DiagDeviceDone(k, v)
     /\ UNCHANGED <<cmdVars, parseVars>>
  \/ /\ tick_pc = "diag_firmware"
     /\ \E k \in Kinds, v \in BOOLEAN : Legal(k, v) /\ DiagFirmwareDone(k, v)
     /\ UNCHANGED <<cmdVars, parseVars>>
  \/ /\ tick_pc = "diag_clients"
     /\ \E k \in Kinds, v \in BOOLEAN : Legal(k, v) /\ DiagClientsDone(k, v)
     /\ UNCHANGED <<cmdVars, parseVars>>
  \/ /\ tick_pc = "diag_traffic"
     /\ \E k \in Kinds, v \in BOOLEAN, ids \in SUBSET Ids :
          Legal(k, v) /\ DiagTrafficDone(k, v, ids)
     /\ UNCHANGED <<cmdVars, parseVars>>
  \/ /\ tick_pc = "vpn"
     /\ \E k \in Kinds, v \in BOOLEAN : Legal(k, v) /\ VpnDone(k, v)
     /\ UNCHANGED <<cmdVars, parseVars>>
  \/ /\ tick_pc = "gps"
     /\ \E k \in GpsKinds, v \in BOOLEAN : Legal(k, v) /\ GpsDone(k, v)
     /\ UNCHANGED <<cmdVars, parseVars>>
  \/ Publish /\ UNCHANGED <<cmdVars, parseVars>>
  \/ /\ tick_pc = "idle"
     /\ \E k \in Kinds, v \in BOOLEAN : Legal(k, v) /\ CommandDone(k, v)
     /\ UNCHANGED <<cmdVars, parseVars>>
  \/ RediscoverPress /\ UNCHANGED <<cmdVars, parseVars>>
  \/ /\ tick_pc = "rediscover_status"
     /\ \E k \in Kinds, v \in BOOLEAN, ids \in SUBSET Ids :
          Legal(k, v) /\ RediscoverStatusDone(k, v, ids)
     /\ UNCHANGED <<cmdVars, parseVars>>
  \/ /\ tick_pc = "rediscover_vpn"
     /\ \E k \in Kinds, v \in BOOLEAN : Legal(k, v) /\ RediscoverVpnDone(k, v)
     /\ UNCHANGED <<cmdVars, parseVars>>

(***************************************************************************)
(* Entity commands as tasks of their own: each awaits its API call while   *)
(* the tick, if one is running, goes on.                                   *)
(***************************************************************************)

\* The platforms are set up (after the first refresh published) and the entry
\* has not been reloaded.
EntitiesSetUp ==
  /\ data # {}
  /\ tick_pc \notin {"reloaded", "rediscover_status", "rediscover_vpn"}

RequestsRefreshMutant(command, k) == k = "ok"

\* Whether the handler of the command calls async_request_refresh() when its
\* API call ended with k: async_select_option does after a call that did not
\* raise (select.py line 78), ResetModemButton.async_press never does.
RequestsRefresh(command, k) == command = "set_priority" /\ k = "ok"

CmdDoneHealthMutant(command, k, v) ==
  /\ cmd_pc = command
  /\ command \in {"set_priority", "reset_modem"}
  /\ Fault(k = "ok")
  /\ RequestEffect(v)
  /\ cmd_pc' = "idle"
  /\ cmd_raised' = (k # "ok")
  /\ refresh_requested' = RequestsRefresh(command, k)
  /\ authenticated' = (k # "AuthError")
  /\ UNCHANGED <<clock, taskVars, configVars, cadenceVars, cacheVars,
                 api_connected, data_healthy, discoveryVars, data, tickVars,
                 ticks, call_log, last_before, tick_result, good>>

\* The tick is between its start and the publication of its snapshot
\* (_async_update_data and its _poll_* helpers).
InTick ==
  tick_pc \in {"status", "usage", "diag_system", "diag_device", "diag_firmware",
               "diag_clients", "diag_traffic", "vpn", "gps", "publish"}

\* A command handler starts and awaits its API call: async_select_option
\* (select.py line 72), ResetModemButton.async_press (button.py line 63),
\* RediscoverButton.async_press (button.py line 90).
CmdStart(command) ==
  /\ EntitiesSetUp
  /\ cmd_pc = "idle"
  /\ cmd_pc' = command
  /\ cmd_raised' = FALSE
  /\ refresh_requested' = FALSE
  /\ UNCHANGED <<sessVars, clock, taskVars, configVars, cadenceVars, cacheVars,
                 healthVars, discoveryVars, data, tickVars, histVars>>

\* set_wan_priority() or reset_cellular_modem() has ended with k: whatever it
\* raised becomes HomeAssistantError, and a set-priority that did not raise
\* requests a refresh.
CmdDone(command, k, v) ==
  /\ cmd_pc = command
  /\ command \in {"set_priority", "reset_modem"}
  /\ Fault(k = "ok")
  /\ RequestEffect(v)
  /\ cmd_pc' = "idle"
  /\ cmd_raised' = (k # "ok")
  /\ refresh_requested' = RequestsRefresh(command, k)
  /\ UNCHANGED <<clock, taskVars, configVars, cadenceVars, cacheVars,
                 healthVars, discoveryVars, data, tickVars, ticks, call_log,
                 last_before, tick_result, good>>

\* RediscoverButton.async_press: async_discover_hardware, first part (lines
\* 126-138); a failure leaves through async_press as HomeAssistantError.
CmdRediscoverStatusDone(k, v, ids) ==
  /\ cmd_pc = "rediscover"
  /\ Fault(k = "ok" /\ ids = Ids)
  /\ k # "ok" => ids = Ids
  /\ RequestEffect(v)
  /\ IF k = "ok"
       THEN /\ wan_connections' =
                 [i \in ids |->
                    IF WanType(i) = "cellular"
                      THEN [ParseWan(ids)[i] EXCEPT
                              !.sim_slot_count = MAX_SIM_SLOTS]
                      ELSE ParseWan(ids)[i]]
            /\ cmd_pc' = IF enable_vpn THEN "rediscover_vpn" ELSE "idle"
            /\ tick_pc' = IF enable_vpn THEN tick_pc ELSE "reloaded"
            /\ UNCHANGED cmd_raised
       ELSE /\ cmd_pc' = "idle"
            /\ cmd_raised' = TRUE
            /\ UNCHANGED <<wan_connections, tick_pc>>
  /\ UNCHANGED <<clock, taskVars, configVars, cadenceVars, cacheVars,
                 healthVars, vpn_profiles_at_discovery, data, now, new_wan,
                 ticks, call_log, last_before, tick_result, good,
                 refresh_requested>>

\* RediscoverButton.async_press: async_discover_hardware, second part (lines
\* 149-165), then config_entries.async_reload (button.py line 94), after which
\* this coordinator ticks no more.
CmdRediscoverVpnDone(k, v) ==
  /\ cmd_pc = "rediscover_vpn"
  /\ Fault(k = "ok")
  /\ RequestEffect(v)
  /\ cmd_pc' = "idle"
  /\ CASE k = "ok" ->
            /\ vpn_profiles_at_discovery' = ticks + 1
            /\ tick_pc' = "reloaded"
            /\ UNCHANGED cmd_raised
       [] k \in {"AuthError", "ConnectionError", "ApiFail"} ->
            /\ tick_pc' = "reloaded"
            /\ UNCHANGED <<vpn_profiles_at_discovery, cmd_raised>>
       [] k = "NonJson" ->
            /\ cmd_raised' = TRUE
            /\ UNCHANGED <<vpn_profiles_at_discovery, tick_pc>>
  /\ UNCHANGED <<clock, taskVars, configVars, cadenceVars, cacheVars,
                 healthVars, wan_connections, data, now, new_wan, ticks,
                 call_log, last_before, tick_result, good, refresh_requested>>

\* The coordinator is followed with a session in user/password mode; the token
\* mode of the session is followed in SpecAuth.
InitSpec == Init /\ auth_mode = AUTH_MODE_USERPASS

Spec == InitSpec /\ [][Next]_vars

\* The commands read neither the clock nor the cadence; the ticks they run
\* beside follow each other at a status interval of 30 seconds, at which some
\* of the slow polls are due and the others keep their cache.
CmdDeltas == {30}

\* The tick of Spec with the commands as tasks of their own.
NextCmd ==
  \/ AsyncSetupEntry /\ UNCHANGED <<cmdVars, parseVars>>
  \/ /\ tick_pc = "discover_status"
     /\ \E k \in Kinds, v \in BOOLEAN, ids \in SUBSET Ids :
          Legal(k, v) /\ DiscoverStatusDone(k, v, ids)
     /\ UNCHANGED <<cmdVars, parseVars>>
  \/ /\ tick_pc = "discover_vpn"
     /\ \E k \in Kinds, v \in BOOLEAN : Legal(k, v) /\ DiscoverVpnDone(k, v)
     /\ UNCHANGED <<cmdVars, parseVars>>
  \/ \E d \in CmdDeltas : TickStart(d) /\ UNCHANGED <<cmdVars, parseVars>>
  \/ /\ tick_pc = "status"
     /\ \E k \in Kinds, v \in BOOLEAN, ids \in SUBSET Ids :
          Legal(k, v) /\ StatusDone(k, v, ids)
     /\ UNCHANGED <<cmdVars, parseVars>>
  \/ /\ tick_pc = "usage"
     /\ \E k \in Kinds, v \in BOOLEAN : Legal(k, v) /\ UsageDone(k, v)
     /\ UNCHANGED <<cmdVars, parseVars>>
  \/ /\ tick_pc = "diag_system"
     /\ \E k \in Kinds, v \in BOOLEAN : Legal(k, v) /\ DiagSystemDone(k, v)
     /\ UNCHANGED <<cmdVars, parseVars>>
  \/ /\ tick_pc = "diag_device"
     /\ \E k \in Kinds, v \in BOOLEAN : Legal(k, v) /\ DiagDeviceDone(k, v)
     /\ UNCHANGED <<cmdVars, parseVars>>
  \/ /\ tick_pc = "diag_firmware"
     /\ \E k \in Kinds, v \in BOOLEAN : Legal(k, v) /\ DiagFirmwareDone(k, v)
     /\ UNCHANGED <<cmdVars, parseVars>>
  \/ /\ tick_pc = "diag_clients"
     /\ \E k \in Kinds, v \in BOOLEAN : Legal(k, v) /\ DiagClientsDone(k, v)
     /\ UNCHANGED <<cmdVars, parseVars>>
  \/ /\ tick_pc = "diag_traffic"
     /\ \E k \in Kinds, v \in BOOLEAN, ids \in SUBSET Ids :
          Legal(k, v) /\ DiagTrafficDone(k, v, ids)
     /\ UNCHANGED <<cmdVars, parseVars>>
  \/ /\ tick_pc = "vpn"
     /\ \E k \in Kinds, v \in BOOLEAN : Legal(k, v) /\ VpnDone(k, v)
     /\ UNCHANGED <<cmdVars, parseVars>>
  \/ /\ tick_pc = "gps"
     /\ \E k \in GpsKinds, v \in BOOLEAN : Legal(k, v) /\ GpsDone(k, v)
     /\ UNCHANGED <<cmdVars, parseVars>>
  \/ Publish /\ UNCHANGED <<cmdVars, parseVars>>
  \/ \E command \in {"set_priority", "reset_modem", "rediscover"} :
        CmdStart(command) /\ UNCHANGED parseVars
  \/ /\ cmd_pc \in {"set_priority", "reset_modem"}
     /\ \E k \in Kinds, v \in BOOLEAN : Legal(k, v) /\ CmdDone(cmd_pc, k, v)
     /\ UNCHANGED parseVars
  \/ /\ cmd_pc = "rediscover"
     /\ \E k \in Kinds, v \in BOOLEAN, ids \in SUBSET Ids :
          Legal(k, v) /\ CmdRediscoverStatusDone(k, v, ids)
     /\ UNCHANGED parseVars
  \/ /\ cmd_pc = "rediscover_vpn"
     /\ \E k \in Kinds, v \in BOOLEAN : Legal(k, v) /\ CmdRediscoverVpnDone(k, v)
     /\ UNCHANGED parseVars

InitCmd == InitSpec /\ clock = ClockStart

SpecCmd == InitCmd /\ [][NextCmd]_vars

(***************************************************************************)
(* The tick with the dispatcher of its primary fetch followed step by step *)
(* in the task of the refresh; no other task calls the client meanwhile    *)
(* (SpecAuth follows concurrent callers).  The slow polls are followed as  *)
(* in Spec.                                                                *)
(***************************************************************************)

\* The task that runs _async_update_data.
TickTask == 1

\* get_wan_status() on what _request gave it (api.py lines 313-326): a decoded
\* body is the connection list or a refusal, a text body has no .get (the
\* tick sees the AttributeError as it sees one raised inside _request), an
\* exception passes through.
StatusKinds(r) ==
  CASE r = "data" -> {"ok", "ApiFail"}
    [] r \in {"text", "AttributeError"} -> {"NonJson"}
    [] r \in {"AuthError", "ConnectionError"} -> {r}
    [] OTHER -> {}

\* _request has returned to get_wan_status(), which returns or raises to the
\* tick (coordinator.py lines 177-206); the task is ready for the next tick.
StatusReturn(k, ids) ==
  /\ tick_pc = "status"
  /\ running = TickTask /\ pc[TickTask] = "done"
  /\ k \in StatusKinds(result[TickTask])
  /\ Fault(k # "ApiFail" /\ ids = Ids)
  /\ k # "ok" => ids = Ids
  /\ StatusHandled(k, is_authenticated, ids)
  /\ call_log' = Append(call_log,
                        [Call("status", k, is_authenticated, ids) EXCEPT
                           !.resp = resp_log[TickTask], !.reauth = reauth_log[TickTask]])
  /\ pc' = [pc EXCEPT ![TickTask] = "idle"]
  /\ op' = [op EXCEPT ![TickTask] = "none"]
  /\ force' = [force EXCEPT ![TickTask] = FALSE]
  /\ attempt' = [attempt EXCEPT ![TickTask] = 0]
  /\ req_cred' = [req_cred EXCEPT ![TickTask] = NoCredential]
  /\ result' = [result EXCEPT ![TickTask] = "none"]
  /\ resp_log' = [resp_log EXCEPT ![TickTask] = <<>>]
  /\ reauth_log' = [reauth_log EXCEPT ![TickTask] = <<>>]
  /\ joined' = [joined EXCEPT ![TickTask] = FALSE]
  /\ running' = 0
  /\ UNCHANGED <<sessVars, clock, configVars, cadenceVars, cacheVars,
                 discoveryVars, data, now, ticks, last_before, good>>

NextTick ==
  \/ AsyncSetupEntry /\ UNCHANGED <<cmdVars, parseVars>>
  \/ /\ tick_pc = "discover_status"
     /\ \E k \in Kinds, v \in BOOLEAN, ids \in SUBSET Ids :
          Legal(k, v) /\ DiscoverStatusDone(k, v, ids)
     /\ UNCHANGED <<cmdVars, parseVars>>
  \/ /\ tick_pc = "discover_vpn"
     /\ \E k \in Kinds, v \in BOOLEAN : Legal(k, v) /\ DiscoverVpnDone(k, v)
     /\ UNCHANGED <<cmdVars, parseVars>>
  \/ \E d \in Deltas : TickStart(d) /\ UNCHANGED <<cmdVars, parseVars>>
  \/ /\ tick_pc = "status"
     /\ UNCHANGED coordVars
     /\ \/ \E c \in {TickTask} : StartRequest(c)
        \/ \E c \in {TickTask} : EnterLock(c)
        \/ \E c \in {TickTask} : InLock(c)
        \/ \E c \in {TickTask}, o \in LoginOutcomes : LoginResponse(c, o)
        \/ \E c \in {TickTask} : AfterEnsure(c)
        \/ \E c \in {TickTask}, o \in RequestOutcomes : Response(c, o)
  \/ /\ tick_pc = "status"
     /\ \E k \in Kinds, ids \in SUBSET Ids : StatusReturn(k, ids)
     /\ UNCHANGED <<cmdVars, parseVars>>
  \/ /\ tick_pc = "usage"
     /\ \E k \in Kinds, v \in BOOLEAN : Legal(k, v) /\ UsageDone(k, v)
     /\ UNCHANGED <<cmdVars, parseVars>>
  \/ /\ tick_pc = "diag_system"
     /\ \E k \in Kinds, v \in BOOLEAN : Legal(k, v) /\ DiagSystemDone(k, v)
     /\ UNCHANGED <<cmdVars, parseVars>>
  \/ /\ tick_pc = "diag_device"
     /\ \E k \in Kinds, v \in BOOLEAN : Legal(k, v) /\ DiagDeviceDone(k, v)
     /\ UNCHANGED <<cmdVars, parseVars>>
  \/ /\ tick_pc = "diag_firmware"
     /\ \E k \in Kinds, v \in BOOLEAN : Legal(k, v) /\ DiagFirmwareDone(k, v)
     /\ UNCHANGED <<cmdVars, parseVars>>
  \/ /\ tick_pc = "diag_clients"
     /\ \E k \in Kinds, v \in BOOLEAN : Legal(k, v) /\ DiagClientsDone(k, v)
     /\ UNCHANGED <<cmdVars, parseVars>>
  \/ /\ tick_pc = "diag_traffic"
     /\ \E k \in Kinds, v \in BOOLEAN, ids \in SUBSET Ids :
          Legal(k, v) /\ DiagTrafficDone(k, v, ids)
     /\ UNCHANGED <<cmdVars, parseVars>>
  \/ /\ tick_pc = "vpn"
     /\ \E k \in Kinds, v \in BOOLEAN : Legal(k, v) /\ VpnDone(k, v)
     /\ UNCHANGED <<cmdVars, parseVars>>
  \/ /\ tick_pc = "gps"
     /\ \E k \in GpsKinds, v \in BOOLEAN : Legal(k, v) /\ GpsDone(k, v)
     /\ UNCHANGED <<cmdVars, parseVars>>
  \/ Publish /\ UNCHANGED <<cmdVars, parseVars>>

InitTick == Init /\ clock = ClockStart

SpecTick == InitTick /\ [][NextTick]_vars

(***************************************************************************)
(* Properties of the tick.                                                 *)
(***************************************************************************)

\* The entries of call_log for the API method m.
Calls(m) == {i \in 1..Len(call_log) : call_log[i].call = m}
Called(m) == Calls(m) # {}
Failed(m) == \E i \in Calls(m) : call_log[i].failed

\* The last tick has ended / has ended by publishing its Snapshot.
TickEnded == ticks > 0 /\ tick_pc = "idle"
Published == TickEnded /\ tick_result = "published"
PrimarySucceeded == Called("status") /\ ~Failed("status")

\* C4: a Snapshot published by a tick whose usage poll failed, after an earlier
\* usage poll succeeded, carries the value decoded by the last successful usage
\* poll (and so does the cache).
C4_UsageKeptOnFailure ==
  (Published /\ Failed("usage") /\ good.usage # Absent) =>
    /\ wan_usage = good.usage
    /\ \A snap \in data : snap.wan_usage = good.usage
C4_Witness ==
  /\ Published /\ Failed("usage") /\ good.usage # Absent
  /\ \E snap \in data : snap.wan_usage = good.usage /\ snap.wan_usage < ticks

\* C5: a Snapshot published by a tick in which the fetch of the temperature/fan
\* diagnostics, of the device info or of the traffic rates failed carries, for
\* that dataset, the value of its last successful decode, not the empty one.
C5_DiagnosticsKeptOnFailure ==
  Published =>
    \A snap \in data :
      /\ (Failed("diag_system") /\ good.diagnostics # Absent)
            => snap.diagnostics = good.diagnostics
      /\ (Failed("diag_device") /\ good.device_info # Absent)
            => snap.device_info = good.device_info
      /\ (Failed("diag_traffic") /\ good.traffic_stats # <<>>)
            => snap.traffic_stats = good.traffic_stats

\* C6: with GPS enabled, a location fetch that fails after a location was
\* decoded leaves the cached and the published location what it was.
C6_LocationKeptOnFailure ==
  (Published /\ enable_gps /\ Failed("gps") /\ good.location # Absent) =>
    /\ location = good.location
    /\ \A snap \in data : snap.location = good.location

\* C7: every tick whose primary fetch succeeded ends by publishing a Snapshot,
\* whatever the slow fetches answered.
C7_TickPublishes ==
  (TickEnded /\ PrimarySucceeded) => tick_result = "published"

\* C8: the step in which the primary fetch fails ends the tick by raising, with
\* no further request, and leaves the published Snapshot, the slow caches and
\* the four timestamps as they were.
C8_PrimaryFailure ==
  [][(tick_pc = "status" /\ tick_result' # tick_result) =>
       /\ tick_pc' = "idle"
       /\ tick_result' \in {"UpdateFailed", "AttributeError"}
       /\ Len(call_log') = 1
       /\ data' = data
       /\ cacheVars' = cacheVars
       /\ cadenceVars' = cadenceVars]_vars
C8_Witness ==
  /\ TickEnded /\ Failed("status") /\ Len(call_log) = 1
  /\ tick_result = "UpdateFailed"
  /\ data # {} /\ good.usage # Absent

\* Whether a slow poll was due when the current tick started.
WasDue(p, interval) == now - last_before[p] >= interval

\* C9: in a tick whose primary fetch succeeded, each slow poll is invoked
\* exactly if it is enabled and its interval had elapsed at the tick's start.
C9_PollIffDue ==
  (TickEnded /\ PrimarySucceeded) =>
    /\ Called("usage") <=> WasDue("usage", DEFAULT_USAGE_INTERVAL)
    /\ Called("diag_system") <=> WasDue("diag", DEFAULT_DIAG_INTERVAL)
    /\ Called("vpn") <=> (enable_vpn /\ WasDue("vpn", DEFAULT_VPN_INTERVAL))
    /\ Called("gps") <=> (enable_gps /\ WasDue("gps", DEFAULT_GPS_INTERVAL))

\* C10: the connection ids of a published Snapshot are exactly the ids the
\* primary fetch of its tick returned.
C10_SnapshotIds ==
  Published =>
    \A snap \in data, i \in Calls("status") :
      DOMAIN snap.wan_connections = call_log[i].ids
C10_Witness ==
  /\ Published
  /\ \E snap \in data :
       /\ DOMAIN snap.wan_connections # {}
       /\ DOMAIN snap.wan_connections # DOMAIN wan_connections
       /\ DOMAIN snap.wan_connections # DOMAIN traffic_stats
       /\ \E i \in DOMAIN snap.wan_connections :
            snap.wan_connections[i].rate # Absent

\* What the primary fetch of the current tick got from the dispatcher.
PrimaryKind(k) == \E i \in Calls("status") : call_log[i].kind = k

\* C11: after a tick whose primary fetch raised AuthError the health flags are
\* (connected, not authenticated, not healthy); after one whose primary fetch
\* raised ConnectionError or ApiError all three are false.
C11_FailureFlags ==
  TickEnded =>
    /\ PrimaryKind("AuthError") =>
         api_connected /\ ~authenticated /\ ~data_healthy
    /\ (PrimaryKind("ConnectionError") \/ PrimaryKind("ApiFail")) =>
         ~api_connected /\ ~authenticated /\ ~data_healthy
C11_Witness ==
  /\ TickEnded /\ PrimaryKind("ConnectionError")
  /\ tick_result = "UpdateFailed"
  /\ ~api_connected
  /\ \E snap \in data : snap.api_connected /\ snap.authenticated

\* C12: the flags of a published Snapshot are: connected; authenticated as the
\* session was when the primary fetch returned; healthy exactly if the primary
\* fetch returned a connection.  The slow polls of the tick, whatever they do
\* to the session, leave them alone.
C12_SuccessFlags ==
  Published =>
    \A snap \in data, i \in Calls("status") :
      /\ snap.api_connected
      /\ snap.authenticated = call_log[i].auth
      /\ snap.data_healthy = (call_log[i].ids # {})
      /\ <<api_connected, authenticated, data_healthy>> =
           <<snap.api_connected, snap.authenticated, snap.data_healthy>>
C12_Witness ==
  /\ Published
  /\ ~is_authenticated
  /\ \E i \in 2..Len(call_log) : call_log[i].failed /\ ~call_log[i].auth
  /\ \E snap \in data : snap.authenticated /\ snap.data_healthy

\* The diagnostics refresh of the current tick has run to its end.
DiagRefreshed ==
  /\ Called("diag_system")
  /\ tick_pc \notin {"diag_device", "diag_firmware", "diag_clients",
                     "diag_traffic"}

\* The caches a diagnostics sub-fetch may write, by the position of the tick.
OwnCache(st) ==
  CASE st = "diag_system" -> diagnostics
    [] st = "diag_device" -> device_info
    [] st = "diag_firmware" -> firmware_version
    [] st = "diag_clients" -> connected_devices
    [] st = "diag_traffic" -> traffic_stats
DiagCaches(st) ==
  [c \in {"diag_system", "diag_device", "diag_firmware", "diag_clients",
          "diag_traffic"} \ {st} |-> OwnCache(c)]

\* C13: a diagnostics refresh attempts every sub-fetch (the firmware one while
\* no version is cached) whether or not an earlier one failed, and the step of
\* one sub-fetch writes no other sub-fetch's cache.
C13_SubFetchesIsolated ==
  /\ [](DiagRefreshed =>
          /\ Called("diag_device") /\ Called("diag_clients")
          /\ Called("diag_traffic")
          /\ Called("diag_firmware") \/ firmware_version # Absent)
  /\ [][\A st \in {"diag_system", "diag_device", "diag_firmware",
                   "diag_clients", "diag_traffic"} :
          tick_pc = st => DiagCaches(st)' = DiagCaches(st)]_vars
C13_Witness ==
  /\ DiagRefreshed
  /\ Failed("diag_system") /\ diagnostics = EmptyResult
  /\ Called("diag_firmware") /\ firmware_version = Decoded
  /\ device_info = Decoded /\ connected_devices = Decoded
  /\ traffic_stats # <<>>

\* C14: a cached firmware version never changes and is what every Snapshot
\* carries; a diagnostics refresh makes the firmware fetch exactly if no
\* version was cached by an earlier tick.
C14_FirmwareOnce ==
  /\ [](Published => \A snap \in data : snap.firmware_version = firmware_version)
  /\ [](DiagRefreshed =>
          (Called("diag_firmware") <=>
             ~(firmware_version # Absent /\ firmware_version < ticks)))
  /\ [][firmware_version # Absent =>
          /\ firmware_version' = firmware_version
          /\ tick_pc' # "diag_firmware"]_vars
C14_Witness ==
  /\ Published /\ DiagRefreshed /\ ~Called("diag_firmware")
  /\ firmware_version # Absent /\ firmware_version < ticks
  /\ \A snap \in data : snap.firmware_version = firmware_version
  /\ \A snap \in data : snap.diagnostics = ticks

\* C15: with VPN (GPS) disabled no tick calls the VPN-profile (location)
\* method, and the cache and every published Snapshot keep the absent value.
C15_DisabledNeverPolled ==
  /\ ~enable_vpn =>
       /\ tick_pc # "vpn" /\ ~Called("vpn")
       /\ vpn_profiles = Absent
       /\ \A snap \in data : snap.vpn_profiles = Absent
  /\ ~enable_gps =>
       /\ tick_pc # "gps" /\ ~Called("gps")
       /\ location = Absent
       /\ \A snap \in data : snap.location = Absent
C15_Witness ==
  /\ ~enable_vpn /\ enable_gps
  /\ Published /\ Called("gps") /\ ticks > 1
  /\ WasDue("vpn", DEFAULT_VPN_INTERVAL)
  /\ \E snap \in data : snap.vpn_profiles = Absent /\ snap.location # Absent

\* The API methods in the order _async_update_data calls them.
CallOrder ==
  <<"status", "usage", "diag_system", "diag_device", "diag_firmware",
    "diag_clients", "diag_traffic", "vpn", "gps">>
CallNo(m) == CHOOSE n \in 1..Len(CallOrder) : CallOrder[n] = m

\* C16: the calls of a tick are made one at a time in program order; a slow
\* poll is awaited only after the primary fetch returned and set the health
\* flags; and the Snapshot of a tick whose diagnostics refresh ran carries the
\* rates that refresh fetched.
C16_TickOrder ==
  /\ \A i \in 1..(Len(call_log) - 1) :
       CallNo(call_log[i].call) < CallNo(call_log[i + 1].call)
  /\ tick_pc \in {"usage", "diag_system", "diag_device", "diag_firmware",
                  "diag_clients", "diag_traffic", "vpn", "gps", "publish"} =>
       /\ call_log[1].call = "status" /\ ~call_log[1].failed
       /\ api_connected /\ data_healthy = (call_log[1].ids # {})
       /\ tick_pc # "publish" => CallNo(call_log[Len(call_log)].call) < CallNo(tick_pc)
  /\ (Published /\ DiagRefreshed) =>
       \A snap \in data :
         \A i \in DOMAIN snap.wan_connections \cap DOMAIN traffic_stats :
           snap.wan_connections[i].rate = traffic_stats[i]
C16_Witness ==
  /\ Published /\ DiagRefreshed /\ Called("usage") /\ ticks > 1
  /\ good.traffic_stats = traffic_stats
  /\ \E snap \in data :
       /\ DOMAIN snap.wan_connections = Ids
       /\ \A i \in Ids : snap.wan_connections[i].rate = ticks

\* C17: a published Snapshot is changed by no step of a later tick, of a slow
\* poll, of a command or of a rediscovery; the only step that changes what is
\* published is the return of a successful tick, which puts one Snapshot built
\* from that tick's connections, the caches and the flags in place of the old.
C17_SnapshotReplaced ==
  [][/\ tick_pc # "publish" => data' = data
     /\ tick_pc = "publish" =>
          /\ tick_result' = "published"
          /\ Cardinality(data') = 1
          /\ \A snap \in data' :
               /\ snap.wan_connections = new_wan
               /\ snap.wan_usage = wan_usage
               /\ snap.diagnostics = diagnostics
               /\ snap.device_info = device_info
               /\ snap.firmware_version = firmware_version
               /\ snap.connected_devices = connected_devices
               /\ snap.traffic_stats = traffic_stats
               /\ snap.vpn_profiles = vpn_profiles
               /\ snap.location = location
               /\ <<snap.api_connected, snap.authenticated, snap.data_healthy>>
                    = healthVars]_vars
C17_Witness ==
  /\ tick_pc = "publish" /\ ticks > 1
  /\ \E snap \in data :
       /\ snap.wan_connections # new_wan
       /\ snap.wan_usage # wan_usage
       /\ snap.diagnostics # diagnostics
       /\ snap.traffic_stats # traffic_stats
       /\ snap.data_healthy # data_healthy

\* The primary fetch of the current tick got HTTP 401 first, each forced
\* re-authentication it made succeeded, and it returned the connection list.
PrimaryRecovered ==
  /\ TickEnded
  /\ call_log[1].resp # <<>> /\ call_log[1].resp[1] = "http401"
  /\ call_log[1].reauth # <<>> /\ AllAre(call_log[1].reauth, "ok")
  /\ call_log[1].kind = "ok"

\* C18: a tick whose primary fetch got HTTP 401, re-authenticated with success
\* and got the connection list on the retry made one re-authentication and one
\* retry, and ends by publishing a Snapshot whose authenticated flag is true.
C18_RecoveredTickPublishes ==
  PrimaryRecovered =>
    /\ call_log[1].reauth = <<"ok">>
    /\ call_log[1].resp = <<"http401", "json">>
    /\ tick_result = "published"
    /\ \A snap \in data : snap.authenticated

\* The outcome of the last forced re-authentication of the task's call.
LastReauth(c) == reauth_log[c][Len(reauth_log[c])]

\* C19: after a 401 the request is sent again only when the forced
\* re-authentication of the call has succeeded, and with the credential that
\* re-authentication stored, not the one the refused request carried; when the
\* forced re-authentication fails the call sends nothing more and raises that
\* failure, an AuthError or a ConnectionError.
C19_RetryAfterReauth ==
  /\ [](\A c \in Callers : pc[c] = "ensured" => running = c)
  /\ [][\A c \in Callers :
          (op[c] = "request" /\ force[c] /\ pc[c] = "login_wait"
             /\ pc'[c] = "ensured") =>
            AttachedCredential' \notin
              {NoCredential, AttachedCredential, req_cred[c]}]_vars
  /\ [][\A c \in Callers :
          (op[c] = "request" /\ force[c] /\ pc[c] = "ensured"
             /\ pc'[c] = "req_wait") =>
            /\ reauth_log[c] # <<>> /\ LastReauth(c) = "ok"
            /\ req_cred'[c] = AttachedCredential
            /\ req_cred'[c] \notin {NoCredential, req_cred[c]}]_vars
  /\ [][\A c \in Callers :
          (Len(reauth_log'[c]) > Len(reauth_log[c])
             /\ LastReauth(c)' # "ok") =>
            /\ pc'[c] = "done"
            /\ attempt'[c] = attempt[c]
            /\ result'[c] = LastReauth(c)'
            /\ result'[c] \in {"AuthError", "ConnectionError"}]_vars

\* The answer the task's call received last, and the number of 401 answers,
\* HTTP or application-level, it has received.
LastResp(c) == resp_log[c][Len(resp_log[c])]
Refusals(c) ==
  Cardinality({i \in DOMAIN resp_log[c] :
                 resp_log[c][i] \in {"http401", "api401"}})

\* C20: the step that receives {"stat": "fail", "code": 401} with a success
\* status does what the step that receives HTTP 401 does: it clears the
\* credential and goes on to a forced re-authentication, whose retry is one of
\* the two attempts; the step that receives any other body, a refusal with
\* another code included, returns it with the session untouched.
C20_ApiLevel401 ==
  /\ [][\A c \in Observed :
          Len(resp_log'[c]) > Len(resp_log[c]) =>
            /\ LastResp(c)' \in {"http401", "api401"} =>
                 /\ AttachedCredential' = NoCredential /\ ~is_authenticated'
                 /\ force'[c] /\ pc'[c] = "ensure" /\ running' = c
                 /\ attempt'[c] = attempt[c] /\ result'[c] = result[c]
            /\ LastResp(c)' \in {"json", "api_fail", "non_json"} =>
                 /\ <<auth_cookie, is_connected, access_token,
                      token_expires_at>>' =
                      <<auth_cookie, is_connected, access_token,
                        token_expires_at>>
                 /\ pc'[c] = "done"
                 /\ result'[c] =
                      IF LastResp(c)' = "non_json" THEN "text" ELSE "data"
                 /\ reauth_log'[c] = reauth_log[c]
                 /\ force'[c] = force[c]]_vars
  /\ [](\A c \in Observed :
          RequestEnded(c) =>
            /\ Len(resp_log[c]) <= MaxAttempts
            /\ Len(reauth_log[c]) = Refusals(c)
            /\ result[c] \in {"data", "text"} =>
                 LastResp(c) \in {"json", "api_fail", "non_json"})
C20_Witness ==
  \E c \in Observed :
    /\ RequestEnded(c)
    /\ resp_log[c] = <<"api401", "api_fail">>
    /\ reauth_log[c] = <<"ok">>
    /\ result[c] = "data"

\* The credential fields of the session.
Credential == <<auth_cookie, is_connected, access_token, token_expires_at>>

\* C21: the step in which an attempt is answered with a non-success status
\* other than 401 ends the call with ConnectionError; it starts no
\* re-authentication and no further attempt and leaves the credential as it was.
C21_HttpErrorFails ==
  [][\A c \in Observed :
       (Len(resp_log'[c]) > Len(resp_log[c])
          /\ LastResp(c)' = "http_error") =>
         /\ pc'[c] = "done" /\ result'[c] = "ConnectionError"
         /\ attempt'[c] = attempt[c]
         /\ reauth_log'[c] = reauth_log[c]
         /\ force'[c] = force[c]
         /\ Credential' = Credential]_vars
C21_Witness ==
  \E c \in Observed :
    /\ RequestEnded(c)
    /\ resp_log[c] = <<"http_error">>
    /\ reauth_log[c] = <<>>
    /\ result[c] = "ConnectionError"
    /\ is_authenticated /\ AttachedCredential = req_cred[c]

\* The session cannot ask for a token: _grant_token raises at line 188-189.
NoClientCreds == auth_mode = AUTH_MODE_TOKEN /\ ~has_client_creds

\* C22 as stated: a non-forced _ensure_connected makes the login/token-grant
\* call exactly if is_authenticated() is false when it takes the lock.
C22_LoginIffUnauthenticated ==
  [][\A c \in Callers :
       (pc[c] = "locked" /\ ~force[c] /\ pc'[c] # "locked") =>
         (pc'[c] = "login_wait" <=> ~is_authenticated)]_vars

\* C22, corrected: a non-forced _ensure_connected makes the login/token-grant
\* call exactly if is_authenticated() is false when it takes the lock and the
\* session has what the call needs; in token mode without client id or secret
\* it raises AuthError instead, and with a valid credential it returns at once.
C22_LoginIffUnauthenticatedAndAble ==
  [][\A c \in Callers :
       (pc[c] = "locked" /\ ~force[c] /\ pc'[c] # "locked") =>
         /\ pc'[c] = "login_wait" <=> (~is_authenticated /\ ~NoClientCreds)
         /\ is_authenticated => (pc'[c] = "ensured" /\ Credential' = Credential)
         /\ (~is_authenticated /\ NoClientCreds) =>
              (pc'[c] = "done" /\ result'[c] = "AuthError")]_vars
C22_Witness ==
  \E c \in Callers :
    /\ pc[c] = "login_wait" /\ ~force[c]
    /\ auth_mode = AUTH_MODE_TOKEN
    /\ access_token # NoCredential /\ clock >= token_expires_at

\* The monotonic time at which the stored token was granted, if its expiry is
\* the granting time plus TOKEN_REFRESH_SECS.
GrantedAt == token_expires_at - TOKEN_REFRESH_SECS

\* C23: a successful token grant at time t stores the expiry t + 165600,
\* whatever lifetime the answer reports; while the token is stored, from t up
\* to but not including t + 165600 is_authenticated() is true and a non-forced
\* _ensure_connected returns without a network call, and from t + 165600 on
\* is_authenticated() is false and a non-forced _ensure_connected makes a
\* token-grant call.
C23_TokenExpiry ==
  /\ [][\A c \in Callers :
          (auth_mode = AUTH_MODE_TOKEN /\ pc[c] = "login_wait"
             /\ pc'[c] = "ensured") =>
            /\ access_token' # NoCredential
            /\ token_expires_at' = clock + 165600]_vars
  /\ [](access_token # NoCredential =>
          /\ GrantedAt <= clock
          /\ clock < GrantedAt + 165600 => is_authenticated
          /\ clock >= GrantedAt + 165600 => ~is_authenticated)
  /\ [][\A c \in Callers :
          (access_token # NoCredential /\ pc[c] = "locked" /\ ~force[c]
             /\ pc'[c] # "locked") =>
            /\ clock < GrantedAt + 165600 =>
                 /\ pc'[c] = "ensured"
                 /\ Credential' = Credential
            /\ clock >= GrantedAt + 165600 =>
                 pc'[c] = "login_wait"]_vars
C23_Witness ==
  \E c, d \in Callers :
    /\ auth_mode = AUTH_MODE_TOKEN /\ access_token # NoCredential
    /\ clock = ClockStart + 165600 /\ token_expires_at = clock
    /\ pc[c] = "req_wait" /\ req_cred[c] = access_token /\ ~force[c]
    /\ pc[d] = "login_wait" /\ ~force[d]

\* C24: the step in which the login or the token-grant call ends with a
\* transport exception leaves the session without a credential, with
\* is_authenticated() false, and ends the flow by raising ConnectionError.
C24_TransportErrorClears ==
  [][\A c \in Callers :
       LoginResponse(c, "transport_error") =>
         /\ auth_cookie' = NoCredential /\ access_token' = NoCredential
         /\ ~is_authenticated'
         /\ pc'[c] = "done" /\ result'[c] = "ConnectionError"
         /\ ~locked']_vars
C24_Witness ==
  \E c, d \in Callers :
    /\ auth_mode = AUTH_MODE_USERPASS
    /\ pc[c] = "done" /\ result[c] = "ConnectionError"
    /\ reauth_log[c] = <<"ConnectionError">>
    /\ pc[d] = "req_wait"
    /\ req_cred[d] \notin {NoCredential, req_cred[c]}
    /\ auth_cookie = NoCredential /\ ~is_connected


\* C25: the login and the token-grant flow end with AuthError on HTTP 401, on a
\* decoded body whose status is not ok (a decoded body that is no object has
\* no status ok) and on a success without credential,
\* with ConnectionError on another non-success status and on a body that does
\* not decode; only a success with a credential stores one (in cookie mode
\* with the connected flag set).
C25_LoginMapping ==
  [][\A c \in Callers :
       /\ \A o \in {"http401", "stat_fail", "not_object", "no_credential",
                     "http_error", "non_json"} :
            LoginResponse(c, o) =>
              /\ pc'[c] = "done"
              /\ result'[c] = IF o \in {"http_error", "non_json"}
                                THEN "ConnectionError" ELSE "AuthError"
              /\ AttachedCredential' \in {AttachedCredential, NoCredential}
              /\ ~(is_connected' /\ ~is_connected)
       /\ LoginResponse(c, "ok") =>
            /\ pc'[c] = "ensured" /\ result'[c] = result[c]
            /\ AttachedCredential' \notin {AttachedCredential, NoCredential}
            /\ is_authenticated'
            /\ auth_mode = AUTH_MODE_USERPASS => is_connected']_vars

\* C26: in token mode without client id or client secret no call of the session
\* ever sends anything (neither a grant nor a request is in flight or was
\* answered), no credential is stored, and every request call and credential
\* test that has ended has ended with AuthError.
C26_NoClientCredsNoNetwork ==
  NoClientCreds =>
    /\ ~is_authenticated /\ access_token = NoCredential
    /\ \A c \in Callers :
         /\ pc[c] \in {"idle", "ensure", "lock_wait", "locked", "done",
                       "returned"}
         /\ resp_log[c] = <<>>
         /\ req_cred[c] = NoCredential
         /\ pc[c] = "done" => result[c] = "AuthError"

C26_Witness ==
  /\ NoClientCreds
  /\ \E c, d \in Callers :
       /\ pc[c] = "done" /\ op[c] = "request" /\ result[c] = "AuthError"
       /\ pc[d] = "returned"

\* C27: the auth mode of a session never changes, and only the credential of
\* that mode is ever present: in cookie mode no access token is stored, in
\* token mode no session cookie is stored and the connected flag is false.
C27_ModeFixed ==
  /\ [][auth_mode' = auth_mode]_vars
  /\ [](IF auth_mode = AUTH_MODE_USERPASS
          THEN access_token = NoCredential /\ token_expires_at = 0
          ELSE /\ auth_mode = AUTH_MODE_TOKEN
               /\ auth_cookie = NoCredential /\ ~is_connected)

C27_Witness ==
  /\ auth_mode = AUTH_MODE_TOKEN
  /\ access_token # NoCredential
  /\ \E c \in Callers :
       /\ pc[c] = "done" /\ op[c] = "request" /\ result[c] = "data"
       /\ reauth_log[c] = <<"ok">>
  /\ \E d \in Callers : pc[d] = "returned"

C29_RefreshAfterSetPriority ==
  [][/\ (\E v \in BOOLEAN : CmdDone("set_priority", "ok", v)) =>
          refresh_requested' /\ ~cmd_raised'
     /\ \A k \in Kinds \ {"ok"} :
          (\E v \in BOOLEAN : CmdDone("set_priority", k, v)) =>
            cmd_raised' /\ ~refresh_requested'
     /\ \A k \in Kinds :
          (\E v \in BOOLEAN : CmdDone("reset_modem", k, v)) =>
            ~refresh_requested' /\ (cmd_raised' <=> k # "ok")
     /\ cmd_pc' = "reset_modem" => ~refresh_requested']_vars

C29_Witness ==
  /\ cmd_pc = "idle" /\ refresh_requested /\ ~cmd_raised
  /\ InTick /\ faults = MaxFaults

\* C30: a step that changes a slow-dataset cache, a last-poll timestamp or a
\* health flag is a step of a tick; the steps of the discovery at set-up, of
\* the rediscovery, of a set-priority and of a modem-reset command change none
\* of them, also while a tick is in progress.
C30_CachesOnlyInTick ==
  [][/\ (cacheVars' # cacheVars \/ cadenceVars' # cadenceVars
           \/ healthVars' # healthVars) =>
          (InTick /\ tick_pc' # tick_pc /\ UNCHANGED cmdVars)
     /\ (cmdVars' # cmdVars
           \/ tick_pc \in {"constructed", "discover_status", "discover_vpn"}) =>
          UNCHANGED <<cacheVars, cadenceVars, healthVars>>]_vars

C30_Witness ==
  /\ cmd_pc = "rediscover_vpn"
  /\ tick_pc = "diag_system" /\ ticks = 2
  /\ wan_usage # Absent
  /\ DOMAIN wan_connections # Ids

\* C31: in every published Snapshot a connection record carries rates exactly
\* if its id is a key of the Snapshot's traffic_stats, and then the record's
\* rates are that entry.
C31_RatesMatchTrafficStats ==
  \A snap \in data :
    \A i \in DOMAIN snap.wan_connections :
      /\ snap.wan_connections[i].rate # Absent <=> i \in DOMAIN snap.traffic_stats
      /\ i \in DOMAIN snap.traffic_stats =>
           snap.wan_connections[i].rate = snap.traffic_stats[i]

\* The SIM-slot count get_wan_status() decodes for connection i
\* (_parse_wan_connection leaves the field at its default).
FreshSimSlots(i) == ParseWan({i})[i].sim_slot_count

\* C32: the records a successful primary fetch hands to the rest of the tick
\* carry, per connection, the larger of the fresh SIM-slot count and the count
\* discovery recorded for that id (the fresh count for an id discovery did not
\* record), never less than the fresh count; the rest of the tick keeps these
\* counts and publishes them, and no step of a tick changes the discovery
\* records.
C32_SimSlotsEnriched ==
  [][/\ (tick_pc = "status" /\ tick_pc' \notin {"status", "idle"}) =>
          \A i \in DOMAIN new_wan' :
            /\ new_wan'[i].sim_slot_count >= FreshSimSlots(i)
            /\ new_wan'[i].sim_slot_count =
                 IF i \in DOMAIN wan_connections
                      /\ wan_connections[i].sim_slot_count > FreshSimSlots(i)
                   THEN wan_connections[i].sim_slot_count
                   ELSE FreshSimSlots(i)
     /\ (InTick /\ tick_pc # "status") =>
          /\ DOMAIN new_wan' = DOMAIN new_wan
          /\ \A i \in DOMAIN new_wan :
               new_wan'[i].sim_slot_count = new_wan[i].sim_slot_count
     /\ (tick_pc = "publish" /\ tick_pc' = "idle") =>
          \A snap \in data' : snap.wan_connections = new_wan
     /\ InTick => wan_connections' = wan_connections]_vars

C32_Witness ==
  /\ Published
  /\ \E snap \in data :
       /\ DOMAIN snap.wan_connections = Ids
       /\ snap.wan_connections[1].sim_slot_count = MAX_SIM_SLOTS
       /\ wan_connections[1].sim_slot_count = MAX_SIM_SLOTS
       /\ FreshSimSlots(1) < MAX_SIM_SLOTS
       /\ snap.wan_connections[2].sim_slot_count = FreshSimSlots(2)

(***************************************************************************)
(* The decoders of api.py, applied to one decoded JSON object.  A string   *)
(* is the sequence of its characters.                                      *)
(***************************************************************************)

UpperCase == <<"A", "E", "H", "N", "R", "T", "V", "W">>
LowerCase == <<"a", "e", "h", "n", "r", "t", "v", "w">>

\* str.lower() on one character and on a string (of the letters used here).
Lower(ch) ==
  IF \E i \in DOMAIN UpperCase : UpperCase[i] = ch
    THEN LowerCase[CHOOSE i \in DOMAIN UpperCase : UpperCase[i] = ch]
    ELSE ch
ToLower(str) == [i \in 1..Len(str) |-> Lower(str[i])]

\* `sub in str`.
Contains(sub, str) ==
  \E k \in 0..(Len(str) - Len(sub)) : SubSeq(str, k + 1, k + Len(sub)) = sub

Str_vwan == <<"v", "w", "a", "n">>
Str_ethernet == <<"e", "t", "h", "e", "r", "n", "e", "t">>

\* The names a connection object may carry.
WanNames ==
  {<<>>,
   <<"W", "A", "N">>,
   <<"v", "w", "a", "n">>,
   <<"V", "W", "A", "N">>,
   <<"V", "w", "a", "n", " ", "e", "t", "h", "e", "r", "n", "e", "t">>,
   <<"e", "t", "h", "e", "r", "n", "e", "t">>,
   <<"E", "t", "h", "e", "r", "n", "e", "t">>,
   <<"e", "t", "h", "e", "r">>}

\* A member of a JSON object: absent, null, or an object.
Members == {"missing", "null", "object"}

\* The "name" member: absent, null, or a string.
NameValues ==
  {[tag |-> "missing", chars |-> <<>>], [tag |-> "null", chars |-> <<>>]}
    \cup {[tag |-> "str", chars |-> n] : n \in WanNames}

\* The connection objects of an answer of status.wan.connection.
WanObjects == [cellular : Members, wifi : Members, name : NameValues]

\* data.get("name") or "" (line 650).
NameOrEmpty(obj) == IF obj.name.tag = "str" THEN obj.name.chars ELSE <<>>

DetermineWanTypeMutant(obj) ==
  IF obj.wifi # "missing" THEN "wifi"
  ELSE IF obj.cellular # "missing" THEN "cellular"
  ELSE LET name == ToLower(NameOrEmpty(obj))
       IN  IF Contains(Str_vwan, name) THEN "vwan"
           ELSE IF Contains(Str_ethernet, name) THEN "ethernet"
           ELSE "unknown"

\* _determine_wan_type (lines 644-655).
DetermineWanType(obj) ==
  IF obj.cellular # "missing" THEN "cellular"
  ELSE IF obj.wifi # "missing" THEN "wifi"
  ELSE LET name == ToLower(NameOrEmpty(obj))
       IN  IF Contains(Str_vwan, name) THEN "vwan"
           ELSE IF Contains(Str_ethernet, name) THEN "ethernet"
           ELSE "unknown"

\* _parse_wan_connection (lines 612-641): the type, and whether a CellularInfo
\* and a WifiInfo are attached.
ParseWanConnection(obj) ==
  LET wan_type == DetermineWanType(obj)
  IN  [wan_type |-> wan_type,
       cellular |-> (wan_type = "cellular" /\ obj.cellular = "object"),
       wifi |-> (wan_type = "wifi" /\ obj.wifi = "object")]

\* The decoder is applied to the object.
DecodeWan ==
  /\ parse_in.kind = "wan"
  /\ parse_out = NoParse
  /\ parse_out' = [kind |-> "wan", value |-> ParseWanConnection(parse_in.obj)]
  /\ UNCHANGED <<sessVars, envVars, taskVars, configVars, cadenceVars,
                 cacheVars, healthVars, discoveryVars, data, tickVars,
                 histVars, cmdVars, parse_in>>

Digits == <<"0", "1", "2", "3", "4", "5", "6", "7", "8", "9">>
IsDigit(ch) == \E i \in DOMAIN Digits : Digits[i] = ch
DigitValue(ch) == (CHOOSE i \in DOMAIN Digits : Digits[i] = ch) - 1

RECURSIVE DecimalValue(_)
DecimalValue(str) ==
  IF str = <<>> THEN 0
  ELSE 10 * DecimalValue(SubSeq(str, 1, Len(str) - 1)) + DigitValue(str[Len(str)])

\* None, where a number or a string may stand.
NoValue == -1

\* _to_int (lines 603-608) on a string of digits or of other characters: its
\* decimal value, or None when int() raises ValueError.
ToInt(str) ==
  IF str # <<>> /\ \A i \in DOMAIN str : IsDigit(str[i])
    THEN DecimalValue(str) ELSE NoValue

Str_usage == <<"u", "s", "a", "g", "e">>
Str_limit == <<"l", "i", "m", "i", "t">>
Str_percent == <<"p", "e", "r", "c", "e", "n", "t">>
Str_unit == <<"u", "n", "i", "t">>
Str_start == <<"s", "t", "a", "r", "t">>

\* The keys a per-connection usage object may have: SIM slots and meter fields.
SlotKeys == {<<"1">>, <<"2">>}
MeterKeys == {Str_usage, Str_limit, Str_percent, Str_unit, Str_start}

\* The value of a meter field of the payload (a number, or the code of a string).
MeterValue(key) ==
  CASE key = Str_usage -> 100
    [] key = Str_limit -> 500
    [] key = Str_percent -> 20
    [] key = Str_unit -> 3
    [] key = Str_start -> 15

\* The per-connection objects of an answer of status.wan.connection.allowance:
\* per key, absent, an object, or a scalar.
UsageObjects ==
  {p \in [SlotKeys \cup MeterKeys -> {"missing", "dict", "scalar"}] :
     \A key \in MeterKeys : p[key] # "dict"}

\* The keys of the object, and data.get(key).
KeysOf(p) == {key \in DOMAIN p : p[key] # "missing"}
Get(p, key) == IF key \in KeysOf(p) THEN MeterValue(key) ELSE NoValue

ParseWanUsageMutant(p) ==
  LET has_nested_sims == \E key \in KeysOf(p) : ToInt(key) # NoValue
  IN  [sim_slots |->
         [present |-> has_nested_sims,
          ids |-> {ToInt(key) : key \in
                     {k \in KeysOf(p) : ToInt(k) # NoValue /\ p[k] = "dict"}}],
       usage_mb |-> Get(p, Str_usage),
       limit_mb |-> Get(p, Str_limit),
       percent |-> Get(p, Str_percent),
       unit |-> Get(p, Str_unit),
       start_date |-> Get(p, Str_start)]

\* _parse_wan_usage (lines 728-752): sim_slots is None or the dict of the slots
\* (here the set of its slot ids); _to_int of a number is that number.
ParseWanUsage(p) ==
  LET has_nested_sims == \E key \in KeysOf(p) : ToInt(key) # NoValue
  IN  [sim_slots |->
         [present |-> has_nested_sims,
          ids |-> IF has_nested_sims
                    THEN {ToInt(key) : key \in
                            {k \in KeysOf(p) :
                               ToInt(k) # NoValue /\ p[k] = "dict"}}
                    ELSE {}],
       usage_mb |-> IF ~has_nested_sims THEN Get(p, Str_usage) ELSE NoValue,
       limit_mb |-> IF ~has_nested_sims THEN Get(p, Str_limit) ELSE NoValue,
       percent |-> IF ~has_nested_sims THEN Get(p, Str_percent) ELSE NoValue,
       unit |-> IF ~has_nested_sims THEN Get(p, Str_unit) ELSE NoValue,
       start_date |-> IF ~has_nested_sims THEN Get(p, Str_start) ELSE NoValue]

DecodeUsage ==
  /\ parse_in.kind = "usage"
  /\ parse_out = NoParse
  /\ parse_out' = [kind |-> "usage", value |-> ParseWanUsage(parse_in.obj)]
  /\ UNCHANGED <<sessVars, envVars, taskVars, configVars, cadenceVars,
                 cacheVars, healthVars, discoveryVars, data, tickVars,
                 histVars, cmdVars, parse_in>>

\* One object of an answer is handed to its decoder; the session and the
\* coordinator play no part.
InitParse ==
  /\ InitSession /\ InitEnv /\ InitTasks /\ InitCoordinator
  /\ auth_mode = AUTH_MODE_USERPASS /\ clock = ClockStart
  /\ ~enable_vpn /\ ~enable_gps
  /\ parse_out = NoParse
  /\ \/ \E obj \in WanObjects : parse_in = [kind |-> "wan", obj |-> obj]
     \/ \E obj \in UsageObjects : parse_in = [kind |-> "usage", obj |-> obj]

NextParse == DecodeWan \/ DecodeUsage

SpecParse == InitParse /\ [][NextParse]_vars

\* The name contains sub, letters of either case standing for each other.
ContainsAnyCase(sub, str) ==
  \E k \in 0..(Len(str) - Len(sub)) :
    \A j \in 1..Len(sub) : Lower(str[k + j]) = Lower(sub[j])

\* C33: the decoded type is cellular if the object has a "cellular" member,
\* else wifi if it has a "wifi" member, else virtual if its name contains
\* "vwan" in any case of letters, else ethernet if its name contains
\* "ethernet" (likewise), else unknown; a cellular (wifi) sub-record is
\* attached only if the type is cellular (wifi).
C33_WanTypePrecedence ==
  parse_out.kind = "wan" =>
    LET obj == parse_in.obj
        out == parse_out.value
        name == IF obj.name.tag = "str" THEN obj.name.chars ELSE <<>>
    IN  /\ obj.cellular # "missing" => out.wan_type = "cellular"
        /\ (obj.cellular = "missing" /\ obj.wifi # "missing") =>
             out.wan_type = "wifi"
        /\ (obj.cellular = "missing" /\ obj.wifi = "missing") =>
             /\ ContainsAnyCase(Str_vwan, name) => out.wan_type = "vwan"
             /\ (~ContainsAnyCase(Str_vwan, name)
                   /\ ContainsAnyCase(Str_ethernet, name)) =>
                  out.wan_type = "ethernet"
             /\ (~ContainsAnyCase(Str_vwan, name)
                   /\ ~ContainsAnyCase(Str_ethernet, name)) =>
                  out.wan_type = "unknown"
        /\ out.cellular => out.wan_type = "cellular"
        /\ out.wifi => out.wan_type = "wifi"

C33_Witness ==
  /\ parse_out.kind = "wan"
  /\ parse_in.obj.cellular = "missing" /\ parse_in.obj.wifi = "missing"
  /\ parse_in.obj.name.tag = "str"
  /\ Contains(Str_ethernet, parse_in.obj.name.chars)
  /\ ~Contains(Str_vwan, parse_in.obj.name.chars)
  /\ ContainsAnyCase(Str_vwan, parse_in.obj.name.chars)
  /\ parse_out.value.wan_type = "vwan"

\* C34: a usage object with at least one key that parses as an integer is
\* decoded with per-slot data, one slot per integer key whose value is an
\* object, and with every flat meter field absent; an object with no such key
\* is decoded with the flat meter fields of the object and no per-slot data.
C34_UsageShapes ==
  parse_out.kind = "usage" =>
    LET p == parse_in.obj
        out == parse_out.value
        intKeys == {key \in KeysOf(p) : ToInt(key) # NoValue}
        slotEntries == {key \in intKeys : p[key] = "dict"}
    IN  /\ intKeys # {} =>
             /\ out.sim_slots.present
             /\ out.sim_slots.ids = {ToInt(key) : key \in slotEntries}
             /\ Cardinality(out.sim_slots.ids) = Cardinality(slotEntries)
             /\ out.usage_mb = NoValue /\ out.limit_mb = NoValue
             /\ out.percent = NoValue /\ out.unit = NoValue
             /\ out.start_date = NoValue
        /\ intKeys = {} =>
             /\ ~out.sim_slots.present /\ out.sim_slots.ids = {}
             /\ out.usage_mb = Get(p, Str_usage)
             /\ out.limit_mb = Get(p, Str_limit)
             /\ out.percent = Get(p, Str_percent)
             /\ out.unit = Get(p, Str_unit)
             /\ out.start_date = Get(p, Str_start)

C34_Witness ==
  /\ parse_out.kind = "usage"
  /\ parse_in.obj[<<"1">>] = "dict" /\ parse_in.obj[<<"2">>] = "dict"
  /\ parse_in.obj[Str_usage] = "scalar"
  /\ parse_out.value.sim_slots.ids = {1, 2}
  /\ parse_out.value.usage_mb = NoValue

\* C35: every request attempt in flight carries a credential, the value the
\* session held when the attempt was sent, whether or not another caller has
\* cleared the session's credential since.
C35_RequestCarriesCredential ==
  \A c \in Callers :
    /\ pc[c] = "req_wait" => req_cred[c] # NoCredential
    /\ pc[c] = "ensured" =>
         (op[c] = "request" => AttachedCredential # NoCredential)

C35_Witness ==
  \E c, d \in Callers :
    /\ pc[c] = "req_wait" /\ req_cred[c] # NoCredential
    /\ pc[d] = "req_wait" /\ attempt[d] = 2
    /\ req_cred[d] \notin {NoCredential, req_cred[c]}
    /\ AttachedCredential = req_cred[d]

\* A fetch of the diagnostics poll of the current tick failed.
DiagFailed ==
  \/ Failed("diag_system") \/ Failed("diag_device") \/ Failed("diag_firmware")
  \/ Failed("diag_clients") \/ Failed("diag_traffic")

\* C36: when the tick has ended, every slow poll that was invoked in it and
\* failed has its timestamp equal to the monotonic time read at the start of
\* that tick.
C36_FailedPollStamped ==
  TickEnded =>
    /\ Failed("usage") => last_usage_poll = now
    /\ DiagFailed => last_diag_poll = now
    /\ Failed("vpn") => last_vpn_poll = now
    /\ Failed("gps") => last_gps_poll = now

\* C37: when the first tick after construction has ended and its primary fetch
\* succeeded, the usage poll and the diagnostics poll, and the VPN and GPS
\* polls if enabled, were invoked in it.
C37_FirstTickPollsAll ==
  (TickEnded /\ ticks = 1 /\ PrimarySucceeded) =>
    /\ Called("usage")
    /\ Called("diag_system")
    /\ enable_vpn => Called("vpn")
    /\ enable_gps => Called("gps")

(***************************************************************************)
(* Ticks without end: the update timer of the coordinator fires again      *)
(* after every tick, whether the tick published or raised.                 *)
(***************************************************************************)

\* Seconds between two ticks of the unending run.
LiveDeltas == {30, 60}

\* The longest interval of a gate: a timestamp at least this old opens every
\* gate.
MaxInterval == DEFAULT_GPS_INTERVAL

\* The gates read the monotonic clock only through the differences
\* now - last (lines 209, 214, 227, 232) and the origin of time.monotonic() is
\* arbitrary: the passing of d seconds is the timestamp t moving d seconds
\* into the past of a reading that stays the same, and timestamps older
\* than MaxInterval are not told apart.
Elapse(t, d) ==
  IF clock - (t - d) >= MaxInterval THEN clock - MaxInterval ELSE t - d

\* A tick of the unending run starts d seconds after the last one (line 174):
\* TickStart(d) without the bound on the number of ticks, and with the
\* router again free to answer MaxFaults requests of the tick abnormally.
\* The ticks are not counted: the router's answers carry the same content in
\* every tick.
LiveTickStart(d) ==
  /\ tick_pc = "idle"
  /\ ticks' = 1
  /\ faults' = 0
  /\ last_usage_poll' = Elapse(last_usage_poll, d)
  /\ last_diag_poll' = Elapse(last_diag_poll, d)
  /\ last_vpn_poll' = Elapse(last_vpn_poll, d)
  /\ last_gps_poll' = Elapse(last_gps_poll, d)
  /\ now' = clock
  /\ tick_pc' = "status"
  /\ call_log' = <<>>
  /\ last_before' = [usage |-> last_usage_poll', diag |-> last_diag_poll',
                     vpn |-> last_vpn_poll', gps |-> last_gps_poll']
  /\ tick_result' = "running"
  /\ new_wan' = <<>>
  /\ UNCHANGED <<sessVars, clock, taskVars, configVars, cacheVars, healthVars,
                 discoveryVars, data, good>>

NextLive ==
  \/ AsyncSetupEntry /\ UNCHANGED <<cmdVars, parseVars>>
  \/ DiscoverStatusDone("ok", TRUE, Ids) /\ UNCHANGED <<cmdVars, parseVars>>
  \/ DiscoverVpnDone("ok", TRUE) /\ UNCHANGED <<cmdVars, parseVars>>
  \/ \E d \in LiveDeltas : LiveTickStart(d) /\ UNCHANGED <<cmdVars, parseVars>>
  \/ /\ tick_pc = "status"
     /\ \E k \in Kinds, v \in BOOLEAN, ids \in SUBSET Ids :
          Legal(k, v) /\ StatusDone(k, v, ids)
     /\ UNCHANGED <<cmdVars, parseVars>>
  \/ /\ tick_pc = "usage"
     /\ \E k \in Kinds, v \in BOOLEAN : Legal(k, v) /\ UsageDone(k, v)
     /\ UNCHANGED <<cmdVars, parseVars>>
  \/ /\ tick_pc = "diag_system"
     /\ \E k \in Kinds, v \in BOOLEAN : Legal(k, v) /\ DiagSystemDone(k, v)
     /\ UNCHANGED <<cmdVars, parseVars>>
  \/ /\ tick_pc = "diag_device"
     /\ \E k \in Kinds, v \in BOOLEAN : Legal(k, v) /\ DiagDeviceDone(k, v)
     /\ UNCHANGED <<cmdVars, parseVars>>
  \/ /\ tick_pc = "diag_firmware"
     /\ \E k \in Kinds, v \in BOOLEAN : Legal(k, v) /\ DiagFirmwareDone(k, v)
     /\ UNCHANGED <<cmdVars, parseVars>>
  \/ /\ tick_pc = "diag_clients"
     /\ \E k \in Kinds, v \in BOOLEAN : Legal(k, v) /\ DiagClientsDone(k, v)
     /\ UNCHANGED <<cmdVars, parseVars>>
  \/ /\ tick_pc = "diag_traffic"
     /\ \E k \in Kinds, v \in BOOLEAN, ids \in SUBSET Ids :
          Legal(k, v) /\ DiagTrafficDone(k, v, ids)
     /\ UNCHANGED <<cmdVars, parseVars>>
  \/ /\ tick_pc = "vpn"
     /\ \E k \in Kinds, v \in BOOLEAN : Legal(k, v) /\ VpnDone(k, v)
     /\ UNCHANGED <<cmdVars, parseVars>>
  \/ /\ tick_pc = "gps"
     /\ \E k \in GpsKinds, v \in BOOLEAN : Legal(k, v) /\ GpsDone(k, v)
     /\ UNCHANGED <<cmdVars, parseVars>>
  \/ Publish /\ UNCHANGED <<cmdVars, parseVars>>

InitLive == InitSpec /\ clock = ClockStart

\* The event loop runs every step that is ready: an awaited answer arrives
\* (each request has a timeout) and the update timer fires.
SpecLive == InitLive /\ [][NextLive]_vars /\ WF_vars(NextLive)

\* C38: if the primary fetch succeeds in infinitely many ticks, then the usage
\* poll and the diagnostics poll, and the VPN and GPS polls if enabled, are
\* each invoked in infinitely many ticks.
C38_NoStarvation ==
  []<>PrimarySucceeded =>
    /\ []<>Called("usage")
    /\ []<>Called("diag_system")
    /\ enable_vpn => []<>Called("vpn")
    /\ enable_gps => []<>Called("gps")

\* C39: a rediscovery whose status fetch fails raises and leaves the
\* discovered connections and VPN profiles as they were; a rediscovery whose
\* VPN-profile fetch fails does not raise, keeps the connections its status
\* fetch has just discovered and the VPN profiles of the last discovery, and
\* goes on to reload the entry.
C39_RediscoveryFailure ==
  [][/\ \A k \in Kinds \ {"ok"}, v \in BOOLEAN :
          CmdRediscoverStatusDone(k, v, Ids) =>
            /\ cmd_raised'
            /\ discoveryVars' = discoveryVars
     /\ \A k \in Kinds \ {"ok"}, v \in BOOLEAN :
          CmdRediscoverVpnDone(k, v) =>
            /\ cmd_raised' = cmd_raised
            /\ tick_pc' = "reloaded"
            /\ discoveryVars' = discoveryVars]_vars

====
